---- MODULE Spec2Model ----
(***************************************************************************)
(* Model of the UUID generators of package pgo (uuid/uuid.go): the v1      *)
(* generator (timestamp + clock sequence + node), the v4 generator         *)
(* (random) and the v7 generator (Unix milliseconds + 12-bit counter),     *)
(* their process-wide singletons (sync.Once + sync.Mutex) and the          *)
(* rendering of the 16 bytes as text.                                      *)
(*                                                                         *)
(* Values wider than 31 bits (uint64 timestamps, int64 milliseconds) are   *)
(* kept at their full width as four 16-bit limbs, most significant first.  *)
(* A Go string is the sequence of its bytes.                               *)
(***************************************************************************)
EXTENDS Integers, Sequences, FiniteSets, TLC

\* ------------------------------------------------------------------ bounds
\* number of concurrent callers (goroutines)
NumProcs == 2
\* number of entry-point calls started in one behaviour
MaxCalls == 3
\* number of distinct instants the wall clock can show
MaxTick == 2
\* number of calls when callers of both singletons run side by side
MaxGenCalls == 2
\* length of the longest string handed to the parser
MaxLen == 50
\* number of interfaces net.Interfaces() lists at most
MaxIfaces == 2

Procs == 1..NumProcs
Ticks == 1..MaxTick
NoProc == 0

\* ------------------------------------------------------- machine integers
RECURSIVE BitAnd(_, _)
BitAnd(a, b) ==
    IF a = 0 \/ b = 0 THEN 0
    ELSE (a % 2) * (b % 2) + 2 * BitAnd(a \div 2, b \div 2)

RECURSIVE BitOr(_, _)
BitOr(a, b) ==
    IF a = 0 THEN b
    ELSE IF b = 0 THEN a
    ELSE (IF a % 2 = 1 \/ b % 2 = 1 THEN 1 ELSE 0) + 2 * BitOr(a \div 2, b \div 2)

\* byte(x): conversion of an unsigned value to uint8
ToByte(x) == x % 256

\* uint64 as <<bits 63..48, bits 47..32, bits 31..16, bits 15..0>>
Zero64 == <<0, 0, 0, 0>>

Add64(a, b) ==
    LET s4 == a[4] + b[4]
        s3 == a[3] + b[3] + s4 \div 65536
        s2 == a[2] + b[2] + s3 \div 65536
        s1 == a[1] + b[1] + s2 \div 65536
    IN  <<s1 % 65536, s2 % 65536, s3 % 65536, s4 % 65536>>

Max64 == <<65535, 65535, 65535, 65535>>

Less64(a, b) ==
    \/ a[1] < b[1]
    \/ a[1] = b[1] /\ a[2] < b[2]
    \/ a[1] = b[1] /\ a[2] = b[2] /\ a[3] < b[3]
    \/ a[1] = b[1] /\ a[2] = b[2] /\ a[3] = b[3] /\ a[4] < b[4]

\* binary.BigEndian.PutUint16
PutUint16(v) == <<v \div 256, v % 256>>

\* binary.BigEndian.Uint16
Uint16(b) == b[1] * 256 + b[2]

\* --------------------------------------------------------------- rendering
HexDigit(n) == IF n < 10 THEN 48 + n ELSE 87 + n

RECURSIVE HexOf(_)
\* fmt's %x of a byte slice: two lower-case hex digits per byte
HexOf(bs) ==
    IF bs = <<>> THEN <<>>
    ELSE <<HexDigit(Head(bs) \div 16), HexDigit(Head(bs) % 16)>> \o HexOf(Tail(bs))

Hyphen == <<45>>

\* Sprintf5 with the bytes of the first group in reverse order
Sprintf5_LowFirst(b) ==
    HexOf(<<b[4], b[3], b[2], b[1]>>) \o Hyphen \o HexOf(SubSeq(b, 5, 6)) \o Hyphen \o
    HexOf(SubSeq(b, 7, 8)) \o Hyphen \o HexOf(SubSeq(b, 9, 10)) \o Hyphen \o
    HexOf(SubSeq(b, 11, 16))

\* fmt.Sprintf("%x-%x-%x-%x-%x", b[0:4], b[4:6], b[6:8], b[8:10], b[10:16])
Sprintf5(b) ==
    HexOf(SubSeq(b, 1, 4)) \o Hyphen \o HexOf(SubSeq(b, 5, 6)) \o Hyphen \o
    HexOf(SubSeq(b, 7, 8)) \o Hyphen \o HexOf(SubSeq(b, 9, 10)) \o Hyphen \o
    HexOf(SubSeq(b, 11, 16))

\* ------------------------------------------------------------ environment
\* crypto/rand: the byte vectors a successful rand.Read may deliver
Fill(n, f, d) == [i \in 1..n |-> (f + d * (i - 1)) % 256]

Rand2 == {<<0, 0>>, <<127, 254>>, <<255, 255>>}
Rand6 == {Fill(6, 2, 17)}
Rand10 == {Fill(10, 255, 0), Fill(10, 90, 7)}
Rand16 ==
    {[Fill(16, 200, 13) EXCEPT ![7] = 0, ![9] = 255],
     [Fill(16, 200, 13) EXCEPT ![7] = 255, ![9] = 0],
     [Fill(16, 0, 13) EXCEPT ![7] = 165, ![9] = 90],
     [Fill(16, 0, 13) EXCEPT ![7] = 79, ![9] = 191]}

\* rand.Read failing
ErrRand == <<"rand.Read">>
NoErr == <<>>

\* fmt.Errorf("msg: %w", err)
Wrap(msg, err) == <<msg>> \o err

\* ------------------------------------------------------------------ state
VARIABLES
    clock,                  \* the instant the wall clock shows (time.Now)
    pc,                     \* position of each caller in its current call
    calls,                  \* entry-point calls started so far
    out,                    \* the results returned so far, in order of return
    GlobalGeneratorV1,      \* *UUIDv1Generator, Nil before construction
    GlobalGeneratorV1Once,  \* sync.Once
    GlobalGeneratorV1Err,
    builtV1,                \* how often NewUUIDv1Generator has run
    GeneratorV7,            \* *UUIDGeneratorV7, Nil before construction
    GeneratorV7Once,        \* sync.Once
    GeneratorV7Err,
    builtV7,                \* how often NewUUIDGeneratorV7 has run
    timestamp,              \* NewV1's local timestamp, per caller
    clockSeq,               \* NewV1's local clockSeq, per caller
    now,                    \* the v7 call's local now, per caller
    counterBits,            \* the v7 call's local counterBits, per caller
    rollover,               \* whether the v7 call took the random (overflow) branch
    input,                  \* the string last handed to UUIDfromString
    parsed,                 \* what UUIDfromString returned for it
    args,                   \* the values handed to GetNodeID or to a packing step
    back                    \* what came back for them

vars ==
    <<clock, pc, calls, out,
      GlobalGeneratorV1, GlobalGeneratorV1Once, GlobalGeneratorV1Err, builtV1,
      GeneratorV7, GeneratorV7Once, GeneratorV7Err, builtV7,
      timestamp, clockSeq, now, counterBits, rollover, input, parsed,
      args, back>>

varsV1 == <<GlobalGeneratorV1, GlobalGeneratorV1Once, GlobalGeneratorV1Err, builtV1>>
varsV7 == <<GeneratorV7, GeneratorV7Once, GeneratorV7Err, builtV7>>
localsV1 == <<timestamp, clockSeq>>
localsV7 == <<now, counterBits, rollover>>
varsParse == <<input, parsed>>
varsPure == <<args, back>>

Nil == [nil |-> TRUE]

\* var uuid UUID
ZeroUUID == [i \in 1..16 |-> 0]

\* what UUIDfromString returns: the UUID value and the error
Returned(u, e) == [uuid |-> u, err |-> e]

\* no values at hand for GetNodeID or a packing step, and nothing back from them
NoArgs == [fn |-> "none"]
NoRet == [bytes |-> <<>>, err |-> <<"not called">>]

\* UUIDfromString has not returned anything yet
NotParsed == Returned(ZeroUUID, <<"not called">>)

\* what an entry point returned: the string and the error, with the 16 bytes
\* and the fields that went into them
Result(ver, err, str, uuid, t, s, roll, drawn) ==
    [ver |-> ver, err |-> err, str |-> str, uuid |-> uuid,
     t |-> t, s |-> s, roll |-> roll, drawn |-> drawn]

\* Failed handing back the text of the zeroed buffer next to the error
Failed_Text(ver, err, str) ==
    Result(ver, err, Sprintf5(ZeroUUID), <<>>, Zero64, 0, FALSE, <<>>)

Failed(ver, err, str) == Result(ver, err, str, <<>>, Zero64, 0, FALSE, <<>>)

Init ==
    /\ clock \in Ticks
    /\ pc = [p \in Procs |-> "idle"]
    /\ calls = 0
    /\ out = <<>>
    /\ GlobalGeneratorV1 = Nil
    /\ GlobalGeneratorV1Once = "new"
    /\ GlobalGeneratorV1Err = NoErr
    /\ builtV1 = 0
    /\ GeneratorV7 = Nil
    /\ GeneratorV7Once = "new"
    /\ GeneratorV7Err = NoErr
    /\ builtV7 = 0
    /\ timestamp = [p \in Procs |-> Zero64]
    /\ clockSeq = [p \in Procs |-> 0]
    /\ now = [p \in Procs |-> Zero64]
    /\ counterBits = [p \in Procs |-> 0]
    /\ rollover = [p \in Procs |-> FALSE]
    /\ input = <<>>
    /\ parsed = NotParsed
    /\ args = NoArgs
    /\ back = NoRet

\* the wall clock moves to another instant, forward or (clock adjustment) backward
ClockStep ==
    /\ \E k \in Ticks \ {clock} : clock' = k
    /\ UNCHANGED <<varsPure, varsParse, pc, calls, out, varsV1, varsV7, localsV1, localsV7>>

\* ---------------------------------------------------------------------- v4
\* "uuid_v4-error#1"
StrV4Error == <<117, 117, 105, 100, 95, 118, 52, 45, 101, 114, 114, 111, 114, 35, 49>>

\* V4Bytes writing version 1 instead of version 4
V4Bytes_Version1(b) ==
    [b EXCEPT ![7] = BitOr(BitAnd(b[7], 15), 16),
              ![9] = BitOr(BitAnd(b[9], 63), 128)]

\* V4Bytes without clearing the bits the version and the variant replace
V4Bytes_NoMask(b) ==
    [b EXCEPT ![7] = BitOr(b[7], 64), ![9] = BitOr(b[9], 128)]

\* b[6] = (b[6] & 0x0f) | 0x40 ; b[8] = (b[8] & 0x3f) | 0x80
V4Bytes(b) ==
    [b EXCEPT ![7] = BitOr(BitAnd(b[7], 15), 64),
              ![9] = BitOr(BitAnd(b[9], 63), 128)]

UUIDv4asString(p) ==
    /\ pc[p] = "idle"
    /\ calls < MaxCalls
    /\ calls' = calls + 1
    /\ \/ out' = Append(out, Failed("v4", ErrRand, StrV4Error))
       \/ \E b \in Rand16 :
            out' = Append(out, Result("v4", NoErr, Sprintf5(V4Bytes(b)),
                                      V4Bytes(b), Zero64, 0, FALSE, b))
    /\ UNCHANGED <<varsPure, varsParse, clock, pc, varsV1, varsV7, localsV1, localsV7>>

NextV4 == \E p \in Procs : UUIDv4asString(p)

SpecV4 == Init /\ [][NextV4]_vars

\* ---------------------------------------------------------------------- v7
\* time.Now().UnixMilli() at the instants the clock can show
BaseMillis == <<0, 417, 39730, 65534>>
UnixMilli(k) == Add64(BaseMillis, <<0, 0, 0, k>>)

\* a v7 generator as NewUUIDGeneratorV7 returns it; id tells the instances apart
NewUUIDGeneratorV7(id) ==
    [id |-> id, Mtx |-> NoProc, LastMillis |-> Zero64, Counter |-> 0]

\* PutUint48 writing the least significant byte first
PutUint48_LowFirst(v) ==
    <<ToByte(v[4]), ToByte(v[4] \div 256), ToByte(v[3]), ToByte(v[3] \div 256),
      ToByte(v[2]), ToByte(v[2] \div 256)>>

\* PutUint48: the low 48 bits of v, big-endian
PutUint48(v) ==
    <<ToByte(v[2] \div 256), ToByte(v[2]), ToByte(v[3] \div 256), ToByte(v[3]),
      ToByte(v[4] \div 256), ToByte(v[4])>>

\* V7Bytes with byte 6 taking the low instead of the high bits of counterBits
V7Bytes_NoShift(n, cb, r) ==
    PutUint48(n) \o
    <<BitOr(7 * 16, ToByte(cb)), ToByte(cb), BitOr(BitAnd(r[1], 63), 128)>> \o
    SubSeq(r, 2, 8)

\* the 16 bytes of a v7 identifier from now, counterBits and the 10 random bytes
V7Bytes(n, cb, r) ==
    PutUint48(n) \o
    <<BitOr(7 * 16, ToByte(cb \div 256)), ToByte(cb),
      BitOr(BitAnd(r[1], 63), 128)>> \o
    SubSeq(r, 2, 8)

InitErrV7 == "fail to initialize uuid v7"

V7Call(p) ==
    /\ pc[p] = "idle"
    /\ calls < MaxCalls
    /\ calls' = calls + 1
    /\ pc' = [pc EXCEPT ![p] = "v7_once"]
    /\ UNCHANGED <<varsPure, varsParse, clock, out, varsV1, varsV7, localsV1, localsV7>>

\* GeneratorV7Once.Do: the first caller runs the function, callers arriving
\* while it runs wait, callers arriving later skip it
V7OnceDo(p) ==
    /\ pc[p] = "v7_once"
    /\ GeneratorV7Once # "running"
    /\ IF GeneratorV7Once = "new"
       THEN /\ GeneratorV7Once' = "running"
            /\ pc' = [pc EXCEPT ![p] = "v7_new"]
       ELSE /\ GeneratorV7Once' = GeneratorV7Once
            /\ pc' = [pc EXCEPT ![p] = "v7_check"]
    /\ UNCHANGED <<varsPure, varsParse, clock, calls, out, varsV1, GeneratorV7, GeneratorV7Err, builtV7,
                   localsV1, localsV7>>

\* GeneratorV7, GeneratorV7Err = NewUUIDGeneratorV7(), and Do returns
V7New(p) ==
    /\ pc[p] = "v7_new"
    /\ GeneratorV7' = NewUUIDGeneratorV7(builtV7 + 1)
    /\ GeneratorV7Err' = NoErr
    /\ builtV7' = builtV7 + 1
    /\ GeneratorV7Once' = "done"
    /\ pc' = [pc EXCEPT ![p] = "v7_check"]
    /\ UNCHANGED <<varsPure, varsParse, clock, calls, out, varsV1, localsV1, localsV7>>

V7Check(p) ==
    /\ pc[p] = "v7_check"
    /\ IF GeneratorV7Err # NoErr
       THEN /\ out' = Append(out, Failed("v7", Wrap(InitErrV7, GeneratorV7Err), <<>>))
            /\ pc' = [pc EXCEPT ![p] = "idle"]
       ELSE /\ out' = out
            /\ pc' = [pc EXCEPT ![p] = "v7_lock"]
    /\ UNCHANGED <<varsPure, varsParse, clock, calls, varsV1, varsV7, localsV1, localsV7>>

\* V7Lock not waiting for the mutex to be free
V7Lock_NoMutex(p) ==
    /\ pc[p] = "v7_lock"
    /\ GeneratorV7' = [GeneratorV7 EXCEPT !.Mtx = p]
    /\ pc' = [pc EXCEPT ![p] = "v7_now"]
    /\ UNCHANGED <<varsPure, varsParse, clock, calls, out, varsV1, GeneratorV7Once, GeneratorV7Err, builtV7,
                   localsV1, localsV7>>

\* GeneratorV7.Mtx.Lock()
V7Lock(p) ==
    /\ pc[p] = "v7_lock"
    /\ GeneratorV7.Mtx = NoProc
    /\ GeneratorV7' = [GeneratorV7 EXCEPT !.Mtx = p]
    /\ pc' = [pc EXCEPT ![p] = "v7_now"]
    /\ UNCHANGED <<varsPure, varsParse, clock, calls, out, varsV1, GeneratorV7Once, GeneratorV7Err, builtV7,
                   localsV1, localsV7>>

\* now := time.Now().UnixMilli()
V7Now(p) ==
    /\ pc[p] = "v7_now"
    /\ now' = [now EXCEPT ![p] = UnixMilli(clock)]
    /\ pc' = [pc EXCEPT ![p] = "v7_reset"]
    /\ UNCHANGED <<varsPure, varsParse, clock, calls, out, varsV1, varsV7, localsV1, counterBits, rollover>>

\* V7Reset resetting only when the clock moved forward
V7Reset_ForwardOnly(p) ==
    /\ pc[p] = "v7_reset"
    /\ GeneratorV7' =
         IF Less64(GeneratorV7.LastMillis, now[p])
         THEN [GeneratorV7 EXCEPT !.LastMillis = now[p], !.Counter = 0]
         ELSE GeneratorV7
    /\ pc' = [pc EXCEPT ![p] = "v7_seq"]
    /\ UNCHANGED <<varsPure, varsParse, clock, calls, out, varsV1, GeneratorV7Once, GeneratorV7Err, builtV7,
                   localsV1, localsV7>>

\* if now != LastMillis { LastMillis = now; Counter = 0 }
V7Reset(p) ==
    /\ pc[p] = "v7_reset"
    /\ GeneratorV7' =
         IF now[p] # GeneratorV7.LastMillis
         THEN [GeneratorV7 EXCEPT !.LastMillis = now[p], !.Counter = 0]
         ELSE GeneratorV7
    /\ pc' = [pc EXCEPT ![p] = "v7_seq"]
    /\ UNCHANGED <<varsPure, varsParse, clock, calls, out, varsV1, GeneratorV7Once, GeneratorV7Err, builtV7,
                   localsV1, localsV7>>

\* V7Unlocked leaving the mutex with the caller
V7Unlocked_Held == GeneratorV7

\* defer Mtx.Unlock() running at a return
V7Unlocked == [GeneratorV7 EXCEPT !.Mtx = NoProc]

\* V7Seq taking the counter path up to and including 4095
V7Seq_Le(p) ==
    /\ pc[p] = "v7_seq"
    /\ IF GeneratorV7.Counter <= 4095
       THEN /\ counterBits' = [counterBits EXCEPT ![p] = GeneratorV7.Counter]
            /\ rollover' = [rollover EXCEPT ![p] = FALSE]
            /\ pc' = [pc EXCEPT ![p] = "v7_inc"]
            /\ UNCHANGED <<out, GeneratorV7, now>>
       ELSE \/ /\ out' = Append(out, Failed("v7", ErrRand, <<>>))
               /\ GeneratorV7' = V7Unlocked
               /\ pc' = [pc EXCEPT ![p] = "idle"]
               /\ now' = [now EXCEPT ![p] = Zero64]
               /\ UNCHANGED <<counterBits, rollover>>
            \/ \E r \in Rand2 :
               /\ counterBits' = [counterBits EXCEPT ![p] = BitAnd(Uint16(r), 4095)]
               /\ rollover' = [rollover EXCEPT ![p] = TRUE]
               /\ pc' = [pc EXCEPT ![p] = "v7_tail"]
               /\ UNCHANGED <<out, GeneratorV7, now>>
    /\ UNCHANGED <<varsPure, varsParse, clock, calls, varsV1, GeneratorV7Once, GeneratorV7Err, builtV7,
                   localsV1>>

\* if Counter < 4095 { counterBits = Counter ... } else { 2 random bytes & 0x0FFF }
V7Seq(p) ==
    /\ pc[p] = "v7_seq"
    /\ IF GeneratorV7.Counter < 4095
       THEN /\ counterBits' = [counterBits EXCEPT ![p] = GeneratorV7.Counter]
            /\ rollover' = [rollover EXCEPT ![p] = FALSE]
            /\ pc' = [pc EXCEPT ![p] = "v7_inc"]
            /\ UNCHANGED <<out, GeneratorV7, now>>
       ELSE \/ /\ out' = Append(out, Failed("v7", ErrRand, <<>>))
               /\ GeneratorV7' = V7Unlocked
               /\ pc' = [pc EXCEPT ![p] = "idle"]
               /\ now' = [now EXCEPT ![p] = Zero64]
               /\ UNCHANGED <<counterBits, rollover>>
            \/ \E r \in Rand2 :
               /\ counterBits' = [counterBits EXCEPT ![p] = BitAnd(Uint16(r), 4095)]
               /\ rollover' = [rollover EXCEPT ![p] = TRUE]
               /\ pc' = [pc EXCEPT ![p] = "v7_tail"]
               /\ UNCHANGED <<out, GeneratorV7, now>>
    /\ UNCHANGED <<varsPure, varsParse, clock, calls, varsV1, GeneratorV7Once, GeneratorV7Err, builtV7,
                   localsV1>>

\* Counter++ (uint16)
V7Inc(p) ==
    /\ pc[p] = "v7_inc"
    /\ GeneratorV7' = [GeneratorV7 EXCEPT !.Counter = (GeneratorV7.Counter + 1) % 65536]
    /\ pc' = [pc EXCEPT ![p] = "v7_tail"]
    /\ UNCHANGED <<varsPure, varsParse, clock, calls, out, varsV1, GeneratorV7Once, GeneratorV7Err, builtV7,
                   localsV1, localsV7>>

\* V7Tail giving the sequence value back when the tail draw fails
V7Tail_Rollback(p) ==
    /\ pc[p] = "v7_tail"
    /\ \/ /\ out' = Append(out, Failed("v7", ErrRand, <<>>))
          /\ GeneratorV7' =
               [GeneratorV7 EXCEPT !.Mtx = NoProc,
                                   !.Counter = IF rollover[p] THEN @ ELSE @ - 1]
       \/ /\ GeneratorV7' = V7Unlocked
          /\ \E r \in Rand10 :
            out' = Append(out, Result("v7", NoErr,
                                      Sprintf5(V7Bytes(now[p], counterBits[p], r)),
                                      V7Bytes(now[p], counterBits[p], r),
                                      now[p], counterBits[p], rollover[p], r))
    /\ pc' = [pc EXCEPT ![p] = "idle"]
    /\ now' = [now EXCEPT ![p] = Zero64]
    /\ counterBits' = [counterBits EXCEPT ![p] = 0]
    /\ rollover' = [rollover EXCEPT ![p] = FALSE]
    /\ UNCHANGED <<varsPure, varsParse, clock, calls, varsV1, GeneratorV7Once, GeneratorV7Err, builtV7,
                   localsV1>>

\* the 10 tail bytes are drawn, the identifier is packed, rendered and returned
V7Tail(p) ==
    /\ pc[p] = "v7_tail"
    /\ \/ out' = Append(out, Failed("v7", ErrRand, <<>>))
       \/ \E r \in Rand10 :
            out' = Append(out, Result("v7", NoErr,
                                      Sprintf5(V7Bytes(now[p], counterBits[p], r)),
                                      V7Bytes(now[p], counterBits[p], r),
                                      now[p], counterBits[p], rollover[p], r))
    /\ GeneratorV7' = V7Unlocked
    /\ pc' = [pc EXCEPT ![p] = "idle"]
    /\ now' = [now EXCEPT ![p] = Zero64]
    /\ counterBits' = [counterBits EXCEPT ![p] = 0]
    /\ rollover' = [rollover EXCEPT ![p] = FALSE]
    /\ UNCHANGED <<varsPure, varsParse, clock, calls, varsV1, GeneratorV7Once, GeneratorV7Err, builtV7,
                   localsV1>>

\* a process whose v7 singleton is already in use: one millisecond has seen
\* 4094 identifiers
InitV7 ==
    \/ Init
    \/ /\ clock \in Ticks
       /\ pc = [p \in Procs |-> "idle"]
       /\ calls = 0
       /\ out = <<>>
       /\ GlobalGeneratorV1 = Nil
       /\ GlobalGeneratorV1Once = "new"
       /\ GlobalGeneratorV1Err = NoErr
       /\ builtV1 = 0
       /\ GeneratorV7 = [NewUUIDGeneratorV7(1) EXCEPT !.LastMillis = UnixMilli(1),
                                                      !.Counter = 4094]
       /\ GeneratorV7Once = "done"
       /\ GeneratorV7Err = NoErr
       /\ builtV7 = 1
       /\ timestamp = [p \in Procs |-> Zero64]
       /\ clockSeq = [p \in Procs |-> 0]
       /\ now = [p \in Procs |-> Zero64]
       /\ counterBits = [p \in Procs |-> 0]
       /\ rollover = [p \in Procs |-> FALSE]
       /\ input = <<>>
       /\ parsed = NotParsed
       /\ args = NoArgs
       /\ back = NoRet

\* UUIDv7asString, step by step
V7Step(p) ==
    \/ V7Call(p)
    \/ V7OnceDo(p)
    \/ V7New(p)
    \/ V7Check(p)
    \/ V7Lock(p)
    \/ V7Now(p)
    \/ V7Reset(p)
    \/ V7Seq(p)
    \/ V7Inc(p)
    \/ V7Tail(p)

NextV7 == ClockStep \/ \E p \in Procs : V7Step(p)

\* concurrent callers of the v7 singleton
SpecV7 == InitV7 /\ [][NextV7]_vars

\* one caller: every call returns before the next begins
NextV7Seq == ClockStep \/ V7Step(1)

SpecV7Seq == InitV7 /\ [][NextV7Seq]_vars

\* ---------------------------------------------------------------------- v1
\* gregorianOffset = 122192928000000000 = 0x01B21DD213814000
gregorianOffset == <<434, 7634, 4993, 16384>>
clockSeqMask == 16383

\* time.Now().UnixNano() / 100 at the instants the clock can show
BaseUnixTime == <<63, 47294, 26768, 49150>>
UnixTime(k) == Add64(BaseUnixTime, <<0, 0, 0, k>>)

\* getTimestamp: uint64(unixTime) + gregorianOffset
getTimestamp(k) == Add64(UnixTime(k), gregorianOffset)

\* net.Interfaces(): the interface lists GetNodeID may see, and its failing
Iface(loop, p2p, addr) == [Loopback |-> loop, PointToPoint |-> p2p, HardwareAddr |-> addr]
MacA == <<0, 37, 150, 18, 52, 86>>
Interfaces ==
    {[err |-> TRUE, list |-> <<>>],
     [err |-> FALSE, list |-> <<Iface(TRUE, FALSE, <<>>)>>],
     [err |-> FALSE,
      list |-> <<Iface(TRUE, FALSE, <<>>), Iface(FALSE, TRUE, Fill(6, 9, 1)),
                 Iface(FALSE, FALSE, Fill(8, 7, 1)), Iface(FALSE, FALSE, MacA),
                 Iface(FALSE, FALSE, Fill(6, 4, 4))>>]}

RECURSIVE FirstMac(_)
\* the loop over the interfaces: the first 6-byte address of an interface that is
\* neither loopback nor point-to-point, <<>> when there is none
FirstMac(list) ==
    IF list = <<>> THEN <<>>
    ELSE IF Head(list).Loopback \/ Head(list).PointToPoint THEN FirstMac(Tail(list))
    ELSE IF Len(Head(list).HardwareAddr) = 6 THEN Head(list).HardwareAddr
    ELSE FirstMac(Tail(list))

ErrNode == "fail to generate random node ID"

\* GetNodeID without the multicast bit
GetNodeID_NoMulticast(ifs, rnd) ==
    IF ~ifs.err /\ FirstMac(ifs.list) # <<>>
    THEN [node |-> FirstMac(ifs.list), err |-> NoErr]
    ELSE IF rnd = <<>>
    THEN [node |-> Fill(6, 0, 0), err |-> Wrap(ErrNode, ErrRand)]
    ELSE [node |-> rnd, err |-> NoErr]

\* GetNodeID; rnd is the 6 random bytes, or <<>> when rand.Read fails
GetNodeID(ifs, rnd) ==
    IF ~ifs.err /\ FirstMac(ifs.list) # <<>>
    THEN [node |-> FirstMac(ifs.list), err |-> NoErr]
    ELSE IF rnd = <<>>
    THEN [node |-> Fill(6, 0, 0), err |-> Wrap(ErrNode, ErrRand)]
    ELSE [node |-> [rnd EXCEPT ![1] = BitOr(rnd[1], 1)], err |-> NoErr]

\* GetRandom14Bit on the two random bytes r
GetRandom14Bit(r) == BitAnd(Uint16(r), clockSeqMask)

\* NextClockSeq without the increment
NextClockSeq_Stuck(cs) == cs

\* NextClockSeq without the mask
NextClockSeq_NoMask(cs) == (cs + 1) % 65536

\* (g.ClockSeq + 1) & clockSeqMask
NextClockSeq(cs) == BitAnd((cs + 1) % 65536, clockSeqMask)

\* a v1 generator as NewUUIDv1Generator returns it; id tells the instances apart
NewUUIDv1Generator(id, node, seq) ==
    [id |-> id, Mtx |-> NoProc, LastTimestamp |-> Zero64, ClockSeq |-> seq, Node |-> node]

\* V1Bytes without the version bits
V1Bytes_NoVersion(ts, cs, node) ==
    PutUint16(ts[3]) \o PutUint16(ts[4]) \o
    PutUint16(ts[2]) \o
    PutUint16(BitAnd(ts[1], 4095)) \o
    <<BitOr(BitAnd(cs \div 256, 63), 128), ToByte(BitAnd(cs, 255))>> \o
    node

\* V1Bytes keeping the bits of the timestamp above bit 59
V1Bytes_NoTimeMask(ts, cs, node) ==
    PutUint16(ts[3]) \o PutUint16(ts[4]) \o
    PutUint16(ts[2]) \o
    PutUint16(BitOr(ts[1], 4096)) \o
    <<BitOr(BitAnd(cs \div 256, 63), 128), ToByte(BitAnd(cs, 255))>> \o
    node

\* the 16 bytes of a v1 identifier
V1Bytes(ts, cs, node) ==
    PutUint16(ts[3]) \o PutUint16(ts[4]) \o
    PutUint16(ts[2]) \o
    PutUint16(BitOr(BitAnd(ts[1], 4095), 4096)) \o
    <<BitOr(BitAnd(cs \div 256, 63), 128), ToByte(BitAnd(cs, 255))>> \o
    node

InitErrV1 == "fail to initialize uuid v1"
ErrInitNode == "fail to initialize node ID"
ErrInitSeq == "fail to initialize clock sequence"

V1Call(p) ==
    /\ pc[p] = "idle"
    /\ calls < MaxCalls
    /\ calls' = calls + 1
    /\ pc' = [pc EXCEPT ![p] = "v1_once"]
    /\ UNCHANGED <<varsPure, varsParse, clock, out, varsV1, varsV7, localsV1, localsV7>>

\* V1OnceDo running the constructor on every call
V1OnceDo_Always(p) ==
    /\ pc[p] = "v1_once"
    /\ GlobalGeneratorV1Once' = "running"
    /\ pc' = [pc EXCEPT ![p] = "v1_new"]
    /\ UNCHANGED <<varsPure, varsParse, clock, calls, out, GlobalGeneratorV1, GlobalGeneratorV1Err, builtV1,
                   varsV7, localsV1, localsV7>>

\* V1OnceDo running the constructor again after it failed
V1OnceDo_Retry(p) ==
    /\ pc[p] = "v1_once"
    /\ GlobalGeneratorV1Once # "running"
    /\ IF GlobalGeneratorV1Once = "new" \/ GlobalGeneratorV1Err # NoErr
       THEN /\ GlobalGeneratorV1Once' = "running"
            /\ pc' = [pc EXCEPT ![p] = "v1_new"]
       ELSE /\ GlobalGeneratorV1Once' = GlobalGeneratorV1Once
            /\ pc' = [pc EXCEPT ![p] = "v1_check"]
    /\ UNCHANGED <<varsPure, varsParse, clock, calls, out, GlobalGeneratorV1, GlobalGeneratorV1Err, builtV1,
                   varsV7, localsV1, localsV7>>

\* GlobalGeneratorV1Once.Do
V1OnceDo(p) ==
    /\ pc[p] = "v1_once"
    /\ GlobalGeneratorV1Once # "running"
    /\ IF GlobalGeneratorV1Once = "new"
       THEN /\ GlobalGeneratorV1Once' = "running"
            /\ pc' = [pc EXCEPT ![p] = "v1_new"]
       ELSE /\ GlobalGeneratorV1Once' = GlobalGeneratorV1Once
            /\ pc' = [pc EXCEPT ![p] = "v1_check"]
    /\ UNCHANGED <<varsPure, varsParse, clock, calls, out, GlobalGeneratorV1, GlobalGeneratorV1Err, builtV1,
                   varsV7, localsV1, localsV7>>

\* GlobalGeneratorV1, GlobalGeneratorV1Err = NewUUIDv1Generator(), and Do returns
V1New(p) ==
    /\ pc[p] = "v1_new"
    /\ \E ifs \in Interfaces, rnd \in Rand6 \cup {<<>>} :
        LET n == GetNodeID(ifs, rnd) IN
        IF n.err # NoErr
        THEN /\ GlobalGeneratorV1' = Nil
             /\ GlobalGeneratorV1Err' = Wrap(ErrInitNode, n.err)
        ELSE \/ /\ GlobalGeneratorV1' = Nil
                /\ GlobalGeneratorV1Err' = Wrap(ErrInitSeq, ErrRand)
             \/ \E r \in Rand2 :
                /\ GlobalGeneratorV1' =
                     NewUUIDv1Generator(builtV1 + 1, n.node, GetRandom14Bit(r))
                /\ GlobalGeneratorV1Err' = NoErr
    /\ builtV1' = builtV1 + 1
    /\ GlobalGeneratorV1Once' = "done"
    /\ pc' = [pc EXCEPT ![p] = "v1_check"]
    /\ UNCHANGED <<varsPure, varsParse, clock, calls, out, varsV7, localsV1, localsV7>>

V1Check(p) ==
    /\ pc[p] = "v1_check"
    /\ IF GlobalGeneratorV1Err # NoErr
       THEN /\ out' = Append(out, Failed("v1", Wrap(InitErrV1, GlobalGeneratorV1Err), <<>>))
            /\ pc' = [pc EXCEPT ![p] = "idle"]
       ELSE /\ out' = out
            /\ pc' = [pc EXCEPT ![p] = "v1_lock"]
    /\ UNCHANGED <<varsPure, varsParse, clock, calls, varsV1, varsV7, localsV1, localsV7>>

\* V1Lock not waiting for the mutex to be free
V1Lock_NoMutex(p) ==
    /\ pc[p] = "v1_lock"
    /\ GlobalGeneratorV1' = [GlobalGeneratorV1 EXCEPT !.Mtx = p]
    /\ pc' = [pc EXCEPT ![p] = "v1_time"]
    /\ UNCHANGED <<varsPure, varsParse, clock, calls, out, GlobalGeneratorV1Once, GlobalGeneratorV1Err, builtV1,
                   varsV7, localsV1, localsV7>>

\* g.Mtx.Lock()
V1Lock(p) ==
    /\ pc[p] = "v1_lock"
    /\ GlobalGeneratorV1.Mtx = NoProc
    /\ GlobalGeneratorV1' = [GlobalGeneratorV1 EXCEPT !.Mtx = p]
    /\ pc' = [pc EXCEPT ![p] = "v1_time"]
    /\ UNCHANGED <<varsPure, varsParse, clock, calls, out, GlobalGeneratorV1Once, GlobalGeneratorV1Err, builtV1,
                   varsV7, localsV1, localsV7>>

\* timestamp := getTimestamp()
V1GetTimestamp(p) ==
    /\ pc[p] = "v1_time"
    /\ timestamp' = [timestamp EXCEPT ![p] = getTimestamp(clock)]
    /\ pc' = [pc EXCEPT ![p] = "v1_switch"]
    /\ UNCHANGED <<varsPure, varsParse, clock, calls, out, varsV1, varsV7, clockSeq, localsV7>>

\* V1Unlocked clearing the node as well
V1Unlocked_ClearsNode == [GlobalGeneratorV1 EXCEPT !.Mtx = NoProc, !.Node = Fill(6, 0, 0)]

\* defer g.Mtx.Unlock() running at a return
V1Unlocked == [GlobalGeneratorV1 EXCEPT !.Mtx = NoProc]

\* V1Draw taking the next value of the stored sequence instead of a draw
V1Draw_FromStored(p) ==
    \/ /\ out' = Append(out, Failed("v1", ErrRand, <<>>))
       /\ GlobalGeneratorV1' = V1Unlocked
       /\ pc' = [pc EXCEPT ![p] = "idle"]
       /\ timestamp' = [timestamp EXCEPT ![p] = Zero64]
       /\ clockSeq' = clockSeq
    \/ /\ clockSeq' = [clockSeq EXCEPT ![p] = NextClockSeq(GlobalGeneratorV1.ClockSeq)]
       /\ pc' = [pc EXCEPT ![p] = "v1_save"]
       /\ UNCHANGED <<out, GlobalGeneratorV1, timestamp>>

\* V1Draw saving the reading before it returns the error
V1Draw_SavesOnError(p) ==
    \/ /\ out' = Append(out, Failed("v1", ErrRand, <<>>))
       /\ GlobalGeneratorV1' = [V1Unlocked EXCEPT !.LastTimestamp = timestamp[p]]
       /\ pc' = [pc EXCEPT ![p] = "idle"]
       /\ timestamp' = [timestamp EXCEPT ![p] = Zero64]
       /\ clockSeq' = clockSeq
    \/ \E r \in Rand2 :
       /\ clockSeq' = [clockSeq EXCEPT ![p] = GetRandom14Bit(r)]
       /\ pc' = [pc EXCEPT ![p] = "v1_save"]
       /\ UNCHANGED <<out, GlobalGeneratorV1, timestamp>>

\* a GetRandom14Bit draw inside NewV1: the call returns the error, or goes on to
\* save the sequence drawn
V1Draw(p) ==
    \/ /\ out' = Append(out, Failed("v1", ErrRand, <<>>))
       /\ GlobalGeneratorV1' = V1Unlocked
       /\ pc' = [pc EXCEPT ![p] = "idle"]
       /\ timestamp' = [timestamp EXCEPT ![p] = Zero64]
       /\ clockSeq' = clockSeq
    \/ \E r \in Rand2 :
       /\ clockSeq' = [clockSeq EXCEPT ![p] = GetRandom14Bit(r)]
       /\ pc' = [pc EXCEPT ![p] = "v1_save"]
       /\ UNCHANGED <<out, GlobalGeneratorV1, timestamp>>

\* V1Switch drawing afresh when the clock went backward
V1Switch_RegressionDraws(p) ==
    /\ pc[p] = "v1_switch"
    /\ IF GlobalGeneratorV1.LastTimestamp = Zero64
       THEN V1Draw(p)
       ELSE IF Less64(timestamp[p], GlobalGeneratorV1.LastTimestamp)
       THEN V1Draw(p)
       ELSE IF timestamp[p] = GlobalGeneratorV1.LastTimestamp
       THEN /\ clockSeq' = [clockSeq EXCEPT
                              ![p] = NextClockSeq(GlobalGeneratorV1.ClockSeq)]
            /\ pc' = [pc EXCEPT ![p] =
                        IF NextClockSeq(GlobalGeneratorV1.ClockSeq) = 0
                        THEN "v1_wait" ELSE "v1_save"]
            /\ UNCHANGED <<out, GlobalGeneratorV1, timestamp>>
       ELSE V1Draw(p)
    /\ UNCHANGED <<varsPure, varsParse, clock, calls, GlobalGeneratorV1Once, GlobalGeneratorV1Err, builtV1,
                   varsV7, localsV7>>

\* V1Switch not waiting when the sequence wraps to 0
V1Switch_NoWait(p) ==
    /\ pc[p] = "v1_switch"
    /\ IF GlobalGeneratorV1.LastTimestamp = Zero64
       THEN V1Draw(p)
       ELSE IF Less64(timestamp[p], GlobalGeneratorV1.LastTimestamp)
       THEN /\ clockSeq' = [clockSeq EXCEPT
                              ![p] = NextClockSeq(GlobalGeneratorV1.ClockSeq)]
            /\ pc' = [pc EXCEPT ![p] = "v1_save"]
            /\ UNCHANGED <<out, GlobalGeneratorV1, timestamp>>
       ELSE IF timestamp[p] = GlobalGeneratorV1.LastTimestamp
       THEN /\ clockSeq' = [clockSeq EXCEPT
                              ![p] = NextClockSeq(GlobalGeneratorV1.ClockSeq)]
            /\ pc' = [pc EXCEPT ![p] = "v1_save"]
            /\ UNCHANGED <<out, GlobalGeneratorV1, timestamp>>
       ELSE V1Draw(p)
    /\ UNCHANGED <<varsPure, varsParse, clock, calls, GlobalGeneratorV1Once, GlobalGeneratorV1Err, builtV1,
                   varsV7, localsV7>>

\* V1Switch releasing the mutex on the way into the wait
V1Switch_UnlockToWait(p) ==
    /\ pc[p] = "v1_switch"
    /\ IF GlobalGeneratorV1.LastTimestamp = Zero64
       THEN V1Draw(p)
       ELSE IF Less64(timestamp[p], GlobalGeneratorV1.LastTimestamp)
       THEN /\ clockSeq' = [clockSeq EXCEPT
                              ![p] = NextClockSeq(GlobalGeneratorV1.ClockSeq)]
            /\ pc' = [pc EXCEPT ![p] = "v1_save"]
            /\ UNCHANGED <<out, GlobalGeneratorV1, timestamp>>
       ELSE IF timestamp[p] = GlobalGeneratorV1.LastTimestamp
       THEN /\ clockSeq' = [clockSeq EXCEPT
                              ![p] = NextClockSeq(GlobalGeneratorV1.ClockSeq)]
            /\ pc' = [pc EXCEPT ![p] =
                        IF NextClockSeq(GlobalGeneratorV1.ClockSeq) = 0
                        THEN "v1_wait" ELSE "v1_save"]
            /\ GlobalGeneratorV1' =
                 IF NextClockSeq(GlobalGeneratorV1.ClockSeq) = 0
                 THEN V1Unlocked ELSE GlobalGeneratorV1
            /\ UNCHANGED <<out, timestamp>>
       ELSE V1Draw(p)
    /\ UNCHANGED <<varsPure, varsParse, clock, calls, GlobalGeneratorV1Once, GlobalGeneratorV1Err, builtV1,
                   varsV7, localsV7>>

\* the switch of NewV1
V1Switch(p) ==
    /\ pc[p] = "v1_switch"
    /\ IF GlobalGeneratorV1.LastTimestamp = Zero64
       THEN V1Draw(p)
       ELSE IF Less64(timestamp[p], GlobalGeneratorV1.LastTimestamp)
       THEN /\ clockSeq' = [clockSeq EXCEPT
                              ![p] = NextClockSeq(GlobalGeneratorV1.ClockSeq)]
            /\ pc' = [pc EXCEPT ![p] = "v1_save"]
            /\ UNCHANGED <<out, GlobalGeneratorV1, timestamp>>
       ELSE IF timestamp[p] = GlobalGeneratorV1.LastTimestamp
       THEN /\ clockSeq' = [clockSeq EXCEPT
                              ![p] = NextClockSeq(GlobalGeneratorV1.ClockSeq)]
            /\ pc' = [pc EXCEPT ![p] =
                        IF NextClockSeq(GlobalGeneratorV1.ClockSeq) = 0
                        THEN "v1_wait" ELSE "v1_save"]
            /\ UNCHANGED <<out, GlobalGeneratorV1, timestamp>>
       ELSE V1Draw(p)
    /\ UNCHANGED <<varsPure, varsParse, clock, calls, GlobalGeneratorV1Once, GlobalGeneratorV1Err, builtV1,
                   varsV7, localsV7>>

\* V1WaitSample sleeping without reading the clock again
V1WaitSample_Stale(p) ==
    /\ pc[p] = "v1_wait"
    /\ timestamp[p] = GlobalGeneratorV1.LastTimestamp
    /\ timestamp' = timestamp
    /\ UNCHANGED <<varsPure, varsParse, clock, pc, calls, out, varsV1, varsV7, clockSeq, localsV7>>

\* for timestamp == g.LastTimestamp { time.Sleep(...); timestamp = getTimestamp() }
V1WaitSample(p) ==
    /\ pc[p] = "v1_wait"
    /\ timestamp[p] = GlobalGeneratorV1.LastTimestamp
    /\ timestamp' = [timestamp EXCEPT ![p] = getTimestamp(clock)]
    /\ UNCHANGED <<varsPure, varsParse, clock, pc, calls, out, varsV1, varsV7, clockSeq, localsV7>>

\* the loop ends and the clock sequence is drawn afresh
V1WaitDone(p) ==
    /\ pc[p] = "v1_wait"
    /\ timestamp[p] # GlobalGeneratorV1.LastTimestamp
    /\ V1Draw(p)
    /\ UNCHANGED <<varsPure, varsParse, clock, calls, GlobalGeneratorV1Once, GlobalGeneratorV1Err, builtV1,
                   varsV7, localsV7>>

\* V1Save keeping the largest timestamp seen
V1Save_KeepMax(p) ==
    /\ pc[p] = "v1_save"
    /\ GlobalGeneratorV1' =
         [GlobalGeneratorV1 EXCEPT
            !.LastTimestamp = IF Less64(timestamp[p], GlobalGeneratorV1.LastTimestamp)
                              THEN GlobalGeneratorV1.LastTimestamp ELSE timestamp[p],
            !.ClockSeq = clockSeq[p],
            !.Mtx = NoProc]
    /\ out' = Append(out, Result("v1", NoErr,
                                 Sprintf5(V1Bytes(timestamp[p], clockSeq[p],
                                                  GlobalGeneratorV1.Node)),
                                 V1Bytes(timestamp[p], clockSeq[p], GlobalGeneratorV1.Node),
                                 timestamp[p], clockSeq[p], FALSE, <<>>))
    /\ pc' = [pc EXCEPT ![p] = "idle"]
    /\ timestamp' = [timestamp EXCEPT ![p] = Zero64]
    /\ clockSeq' = [clockSeq EXCEPT ![p] = 0]
    /\ UNCHANGED <<varsPure, varsParse, clock, calls, GlobalGeneratorV1Once, GlobalGeneratorV1Err, builtV1,
                   varsV7, localsV7>>

\* the state is saved, the identifier is packed, rendered and returned
V1Save(p) ==
    /\ pc[p] = "v1_save"
    /\ GlobalGeneratorV1' = [GlobalGeneratorV1 EXCEPT !.LastTimestamp = timestamp[p],
                                                      !.ClockSeq = clockSeq[p],
                                                      !.Mtx = NoProc]
    /\ \E uuid \in {V1Bytes(timestamp[p], clockSeq[p], GlobalGeneratorV1.Node)} :
         out' = Append(out, Result("v1", NoErr, Sprintf5(uuid), uuid,
                                   timestamp[p], clockSeq[p], FALSE, <<>>))
    /\ pc' = [pc EXCEPT ![p] = "idle"]
    /\ timestamp' = [timestamp EXCEPT ![p] = Zero64]
    /\ clockSeq' = [clockSeq EXCEPT ![p] = 0]
    /\ UNCHANGED <<varsPure, varsParse, clock, calls, GlobalGeneratorV1Once, GlobalGeneratorV1Err, builtV1,
                   varsV7, localsV7>>

\* UUIDv1asString, step by step
V1Step(p) ==
    \/ V1Call(p)
    \/ V1OnceDo(p)
    \/ V1New(p)
    \/ V1Check(p)
    \/ V1Lock(p)
    \/ V1GetTimestamp(p)
    \/ V1Switch(p)
    \/ V1WaitSample(p)
    \/ V1WaitDone(p)
    \/ V1Save(p)

NextV1 == ClockStep \/ \E p \in Procs : V1Step(p)

SpecV1 == Init /\ [][NextV1]_vars

\* a generator built by hand, as the tests build it, and installed as the one in
\* use: it has issued identifiers before, up to the largest timestamp there is
TestNode == <<1, 35, 69, 103, 137, 171>>
InitNewV1 ==
    \/ Init
    \/ /\ clock \in Ticks
       /\ pc = [p \in Procs |-> "idle"]
       /\ calls = 0
       /\ out = <<>>
       /\ \E last \in {Max64, getTimestamp(1)}, seq \in {4660, 16383} :
            GlobalGeneratorV1 =
                [NewUUIDv1Generator(1, TestNode, seq) EXCEPT !.LastTimestamp = last]
       /\ GlobalGeneratorV1Once = "done"
       /\ GlobalGeneratorV1Err = NoErr
       /\ builtV1 = 1
       /\ GeneratorV7 = Nil
       /\ GeneratorV7Once = "new"
       /\ GeneratorV7Err = NoErr
       /\ builtV7 = 0
       /\ timestamp = [p \in Procs |-> Zero64]
       /\ clockSeq = [p \in Procs |-> 0]
       /\ now = [p \in Procs |-> Zero64]
       /\ counterBits = [p \in Procs |-> 0]
       /\ rollover = [p \in Procs |-> FALSE]
       /\ input = <<>>
       /\ parsed = NotParsed
       /\ args = NoArgs
       /\ back = NoRet

SpecNewV1 == InitNewV1 /\ [][NextV1]_vars

\* one caller of NewV1 whose steps are scheduled, with a clock that moves on and a
\* wait loop that gets to see a reading other than the one it waits on
NextV1Seq == ClockStep \/ V1Step(1)

ReadsAnother(p) == V1WaitSample(p) /\ timestamp'[p] # timestamp[p]

FairV1 ==
    /\ WF_vars(ClockStep)
    /\ WF_vars(V1Step(1))
    /\ SF_vars(ReadsAnother(1))

SpecV1Live == InitNewV1 /\ [][NextV1Seq]_vars /\ FairV1

\* ------------------------------------------------------------------ parser
\* var xvalues = [256]byte{...}: entry c + 1 is the value of byte c
xvalues ==
    <<
      255, 255, 255, 255, 255, 255, 255, 255, 255, 255, 255, 255, 255, 255, 255, 255,
      255, 255, 255, 255, 255, 255, 255, 255, 255, 255, 255, 255, 255, 255, 255, 255,
      255, 255, 255, 255, 255, 255, 255, 255, 255, 255, 255, 255, 255, 255, 255, 255,
      0, 1, 2, 3, 4, 5, 6, 7, 8, 9, 255, 255, 255, 255, 255, 255,
      255, 10, 11, 12, 13, 14, 15, 255, 255, 255, 255, 255, 255, 255, 255, 255,
      255, 255, 255, 255, 255, 255, 255, 255, 255, 255, 255, 255, 255, 255, 255, 255,
      255, 10, 11, 12, 13, 14, 15, 255, 255, 255, 255, 255, 255, 255, 255, 255,
      255, 255, 255, 255, 255, 255, 255, 255, 255, 255, 255, 255, 255, 255, 255, 255,
      255, 255, 255, 255, 255, 255, 255, 255, 255, 255, 255, 255, 255, 255, 255, 255,
      255, 255, 255, 255, 255, 255, 255, 255, 255, 255, 255, 255, 255, 255, 255, 255,
      255, 255, 255, 255, 255, 255, 255, 255, 255, 255, 255, 255, 255, 255, 255, 255,
      255, 255, 255, 255, 255, 255, 255, 255, 255, 255, 255, 255, 255, 255, 255, 255,
      255, 255, 255, 255, 255, 255, 255, 255, 255, 255, 255, 255, 255, 255, 255, 255,
      255, 255, 255, 255, 255, 255, 255, 255, 255, 255, 255, 255, 255, 255, 255, 255,
      255, 255, 255, 255, 255, 255, 255, 255, 255, 255, 255, 255, 255, 255, 255, 255,
      255, 255, 255, 255, 255, 255, 255, 255, 255, 255, 255, 255, 255, 255, 255, 255
    >>

\* xToByte without the shift of the first nibble
xToByte_NoShift(x1, x2) ==
    LET b1 == xvalues[x1 + 1]
        b2 == xvalues[x2 + 1]
    IN  [val |-> BitOr(b1, b2), ok |-> b1 # 255 /\ b2 # 255]

\* xToByte with only the first nibble deciding validity
xToByte_FirstNibble(x1, x2) ==
    LET b1 == xvalues[x1 + 1]
        b2 == xvalues[x2 + 1]
    IN  [val |-> BitOr(ToByte(b1 * 16), b2), ok |-> b1 # 255]

\* xToByte: (b1 << 4) | b2 as a byte, and whether both nibbles are valid
xToByte(x1, x2) ==
    LET b1 == xvalues[x1 + 1]
        b2 == xvalues[x2 + 1]
    IN  [val |-> BitOr(ToByte(b1 * 16), b2), ok |-> b1 # 255 /\ b2 # 255]

\* the errors of UUIDfromString; %d and %q arguments are kept as text
ErrFormat == <<"wrong uuid format">>
ErrInvalid == <<"invalid uuid format">>
ErrLength(n) == <<"wrong uuid length", ToString(n)>>
ErrPrefix(pre) == <<"wrong urn prefix", ToString(pre)>>

\* "urn:uuid:"
UrnPrefix == <<117, 114, 110, 58, 117, 117, 105, 100, 58>>

\* strings.EqualFold on the bytes of a string compared with an ASCII literal
Lower(c) == IF c \in 65..90 THEN c + 32 ELSE c
\* EqualFold comparing the bytes as they are
EqualFold_Exact(a, b) == a = b

EqualFold(a, b) ==
    /\ Len(a) = Len(b)
    /\ \A i \in 1..Len(a) : Lower(a[i]) = Lower(b[i])

\* [16]int{0, 2, 4, 6, 9, 11, 14, 16, 19, 21, 24, 26, 28, 30, 32, 34}
PairAt == <<0, 2, 4, 6, 9, 11, 14, 16, 19, 21, 24, 26, 28, 30, 32, 34>>

\* case 32: every pair is stored before its validity is looked at
Parse32(s) ==
    LET pr == [i \in 1..16 |-> xToByte(s[2 * i - 1], s[2 * i])]
        bad == {i \in 1..16 : ~pr[i].ok}
        first == CHOOSE i \in bad : \A j \in bad : i <= j
    IN  IF bad = {} THEN Returned([i \in 1..16 |-> pr[i].val], NoErr)
        ELSE Returned([i \in 1..16 |-> IF i <= first THEN pr[i].val ELSE 0], ErrFormat)

\* ParseBody looking at the first hyphen only
ParseBody_OneHyphen(s) ==
    IF s[9] # 45
    THEN Returned(ZeroUUID, ErrFormat)
    ELSE LET pr == [i \in 1..16 |-> xToByte(s[PairAt[i] + 1], s[PairAt[i] + 2])]
             bad == {i \in 1..16 : ~pr[i].ok}
             first == CHOOSE i \in bad : \A j \in bad : i <= j
         IN  IF bad = {} THEN Returned([i \in 1..16 |-> pr[i].val], NoErr)
             ELSE Returned([i \in 1..16 |-> IF i < first THEN pr[i].val ELSE 0],
                           ErrInvalid)

\* the hyphen test and the loop over the 16 pairs, on s of at least 36 bytes
ParseBody(s) ==
    IF s[9] # 45 \/ s[14] # 45 \/ s[19] # 45 \/ s[24] # 45
    THEN Returned(ZeroUUID, ErrFormat)
    ELSE LET pr == [i \in 1..16 |-> xToByte(s[PairAt[i] + 1], s[PairAt[i] + 2])]
             bad == {i \in 1..16 : ~pr[i].ok}
             first == CHOOSE i \in bad : \A j \in bad : i <= j
         IN  IF bad = {} THEN Returned([i \in 1..16 |-> pr[i].val], NoErr)
             ELSE Returned([i \in 1..16 |-> IF i < first THEN pr[i].val ELSE 0],
                           ErrInvalid)

\* UUIDfromString taking every string of 36 bytes or more as the plain form
UUIDfromString_AtLeast36(s) ==
    CASE Len(s) = 32 -> Parse32(s)
      [] Len(s) >= 36 -> ParseBody(s)
      [] OTHER -> Returned(ZeroUUID, ErrLength(Len(s)))

UUIDfromString(s) ==
    CASE Len(s) = 32 -> Parse32(s)
      [] Len(s) = 36 -> ParseBody(s)
      [] Len(s) = 38 -> ParseBody(Tail(s))
      [] Len(s) = 45 ->
            IF ~EqualFold(SubSeq(s, 1, 9), UrnPrefix)
            THEN Returned(ZeroUUID, ErrPrefix(SubSeq(s, 1, 9)))
            ELSE ParseBody(SubSeq(s, 10, 45))
      [] OTHER -> Returned(ZeroUUID, ErrLength(Len(s)))

\* UUIDv1, UUIDv4, UUIDv7: res, _ := UUIDvNasString(); return UUIDfromString(res),
\* where r is what the string entry point returned
UUIDv1(r) == UUIDfromString(r.str)
UUIDv4(r) == UUIDfromString(r.str)
UUIDv7(r) == UUIDfromString(r.str)

\* the texts of an identifier the parser is meant to accept
Canonical(x) == Sprintf5(x)
Compact(x) == HexOf(x)
Braced(x) == <<123>> \o Sprintf5(x) \o <<125>>
Urn(x) == UrnPrefix \o Sprintf5(x)
Forms(x) == {Canonical(x), Compact(x), Braced(x), Urn(x)}

\* the same text with its letters in upper case, and a byte with its case changed
Upper(s) == [i \in 1..Len(s) |-> IF s[i] \in 97..122 THEN s[i] - 32 ELSE s[i]]
Flip(c) == IF c \in 97..122 THEN c - 32 ELSE IF c \in 65..90 THEN c + 32 ELSE c

\* [0,0,0,0,0,0,0x10,0,0x80,0,0,0,0,0,0,0]
ExampleId == [ZeroUUID EXCEPT ![7] = 16, ![9] = 128]

\* identifiers: every byte value occurs, and what each generator packs
Ids ==
    {Fill(16, 16 * k, 1) : k \in 0..15} \cup {ExampleId, Fill(16, 255, 0)} \cup
    {V4Bytes(b) : b \in Rand16} \cup
    {V7Bytes(UnixMilli(1), 4094, r) : r \in Rand10} \cup
    {V1Bytes(getTimestamp(1), 16383, MacA)}

\* the identifiers whose texts are damaged
DamagedIds == {Fill(16, 160, 1), ExampleId}

\* bytes put in place of a byte of a text: the neighbours of the hex ranges,
\* hex digits of both cases, the hyphen, the braces, NUL, space and 0xff
Bytes == {0, 32, 45, 47, 48, 57, 58, 64, 65, 70, 71, 96, 97, 102, 103, 123, 125, 255}

\* a text with one byte replaced, one letter's case changed, or two
\* neighbouring bytes exchanged
Damaged(f) ==
    {[f EXCEPT ![i] = c] : i \in 1..Len(f), c \in Bytes} \cup
    {[f EXCEPT ![i] = Flip(f[i])] : i \in 1..Len(f)} \cup
    {[f EXCEPT ![i] = f[i + 1], ![i + 1] = f[i]] : i \in 1..(Len(f) - 1)}

\* texts of every length up to MaxLen
Cut(x) ==
    {SubSeq(Urn(x) \o Compact(x), 1, n) : n \in 0..MaxLen} \cup
    {SubSeq(Compact(x) \o Compact(x), 1, n) : n \in 0..MaxLen} \cup
    {SubSeq(Braced(x) \o Braced(x), 1, n) : n \in 0..MaxLen}

\* the canonical text between two bytes, and behind another 9-byte prefix
Wrapped(x) == {<<a>> \o Canonical(x) \o <<b>> : a, b \in {40, 41, 45, 48, 120, 123, 125}}
\* "urn:uudi:", "URN:UUID:", "uRn:UuId:", "urn-uuid:", "urn:uuid;", "uuid:urn:"
Prefixes ==
    {<<117, 114, 110, 58, 117, 117, 100, 105, 58>>,
     <<85, 82, 78, 58, 85, 85, 73, 68, 58>>,
     <<117, 82, 110, 58, 85, 117, 73, 100, 58>>,
     <<117, 114, 110, 45, 117, 117, 105, 100, 58>>,
     <<117, 114, 110, 58, 117, 117, 105, 100, 59>>,
     <<117, 117, 105, 100, 58, 117, 114, 110, 58>>}
Prefixed(x) == {pre \o Canonical(x) : pre \in Prefixes}

\* the strings handed to the parser
Inputs ==
    UNION {Forms(x) \cup {Upper(f) : f \in Forms(x)} : x \in Ids} \cup
    UNION {Damaged(f) : f \in UNION {Forms(x) : x \in DamagedIds}} \cup
    UNION {Cut(x) \cup Wrapped(x) \cup Prefixed(x) : x \in DamagedIds}

\* a call of UUIDfromString on the string at hand
UUIDfromStringCall ==
    /\ parsed' = UUIDfromString(input)
    /\ UNCHANGED <<varsPure, input, clock, pc, calls, out, varsV1, varsV7, localsV1, localsV7>>

\* a caller holding any of the strings
InitParse ==
    /\ clock \in Ticks
    /\ pc = [p \in Procs |-> "idle"]
    /\ calls = 0
    /\ out = <<>>
    /\ GlobalGeneratorV1 = Nil
    /\ GlobalGeneratorV1Once = "new"
    /\ GlobalGeneratorV1Err = NoErr
    /\ builtV1 = 0
    /\ GeneratorV7 = Nil
    /\ GeneratorV7Once = "new"
    /\ GeneratorV7Err = NoErr
    /\ builtV7 = 0
    /\ timestamp = [p \in Procs |-> Zero64]
    /\ clockSeq = [p \in Procs |-> 0]
    /\ now = [p \in Procs |-> Zero64]
    /\ counterBits = [p \in Procs |-> 0]
    /\ rollover = [p \in Procs |-> FALSE]
    /\ input \in Inputs
    /\ parsed = NotParsed
    /\ args = NoArgs
    /\ back = NoRet

NextParse == UUIDfromStringCall

SpecParse == InitParse /\ [][NextParse]_vars

\* ------------------------------------------------------- the method NewV1
\* NewV1 taking the next value of the stored sequence on the first call
NewV1_SeedFirst(g, ts, ts2, r) ==
    LET path == IF g.LastTimestamp = Zero64 THEN "next"
                ELSE IF Less64(ts, g.LastTimestamp) THEN "next"
                ELSE IF ts = g.LastTimestamp
                THEN (IF NextClockSeq(g.ClockSeq) = 0 THEN "wait" ELSE "next")
                ELSE "draw"
        timestamp1 == IF path = "wait" THEN ts2 ELSE ts
        clockSeq1 == IF path = "next" THEN NextClockSeq(g.ClockSeq) ELSE GetRandom14Bit(r)
    IN  IF path # "next" /\ r = <<>>
        THEN [g |-> g, str |-> <<>>, err |-> ErrRand]
        ELSE [g |-> [g EXCEPT !.LastTimestamp = timestamp1, !.ClockSeq = clockSeq1],
              str |-> Sprintf5(V1Bytes(timestamp1, clockSeq1, g.Node)),
              err |-> NoErr]

\* g.NewV1() of a caller that finds the mutex free: ts is the reading of the clock,
\* ts2 the first sample of the wait loop that differs from LastTimestamp, r the 2
\* bytes drawn, <<>> for a draw that fails; the generator after the call, the
\* string and the error
NewV1(g, ts, ts2, r) ==
    LET path == IF g.LastTimestamp = Zero64 THEN "draw"
                ELSE IF Less64(ts, g.LastTimestamp) THEN "next"
                ELSE IF ts = g.LastTimestamp
                THEN (IF NextClockSeq(g.ClockSeq) = 0 THEN "wait" ELSE "next")
                ELSE "draw"
        timestamp1 == IF path = "wait" THEN ts2 ELSE ts
        clockSeq1 == IF path = "next" THEN NextClockSeq(g.ClockSeq) ELSE GetRandom14Bit(r)
    IN  IF path # "next" /\ r = <<>>
        THEN [g |-> g, str |-> <<>>, err |-> ErrRand]
        ELSE [g |-> [g EXCEPT !.LastTimestamp = timestamp1, !.ClockSeq = clockSeq1],
              str |-> Sprintf5(V1Bytes(timestamp1, clockSeq1, g.Node)),
              err |-> NoErr]

\* the clock sequences NewUUIDv1Generator may have drawn
Seeds == {0, 4660, 16383}

\* two generators as NewUUIDv1Generator returns them, and what they have returned
Pair(a, b) == [a |-> a, b |-> b, outa |-> <<>>, outb |-> <<>>]
PairNow == IF back = NoRet THEN Pair(args.a, args.b) ELSE back

\* both generators get a NewV1 call, with the same readings and the same draw
NewV1Pair ==
    /\ args.fn = "NewV1 twice"
    /\ Len(PairNow.outa) < MaxCalls
    /\ \E k \in Ticks, k2 \in Ticks, r \in Rand2 \cup {<<>>} :
        /\ getTimestamp(k2) # PairNow.a.LastTimestamp
        /\ getTimestamp(k2) # PairNow.b.LastTimestamp
        /\ \E x \in {NewV1(PairNow.a, getTimestamp(k), getTimestamp(k2), r)},
              y \in {NewV1(PairNow.b, getTimestamp(k), getTimestamp(k2), r)} :
            back' = [a |-> x.g, b |-> y.g,
                     outa |-> Append(PairNow.outa, [str |-> x.str, err |-> x.err]),
                     outb |-> Append(PairNow.outb, [str |-> y.str, err |-> y.err])]
    /\ UNCHANGED <<args, varsParse, clock, pc, calls, out, varsV1, varsV7,
                   localsV1, localsV7>>

InitPair ==
    /\ clock \in Ticks
    /\ pc = [p \in Procs |-> "idle"]
    /\ calls = 0
    /\ out = <<>>
    /\ GlobalGeneratorV1 = Nil
    /\ GlobalGeneratorV1Once = "new"
    /\ GlobalGeneratorV1Err = NoErr
    /\ builtV1 = 0
    /\ GeneratorV7 = Nil
    /\ GeneratorV7Once = "new"
    /\ GeneratorV7Err = NoErr
    /\ builtV7 = 0
    /\ timestamp = [p \in Procs |-> Zero64]
    /\ clockSeq = [p \in Procs |-> 0]
    /\ now = [p \in Procs |-> Zero64]
    /\ counterBits = [p \in Procs |-> 0]
    /\ rollover = [p \in Procs |-> FALSE]
    /\ input = <<>>
    /\ parsed = NotParsed
    /\ \E sa \in Seeds, sb \in Seeds :
        args = [fn |-> "NewV1 twice",
                a |-> NewUUIDv1Generator(1, TestNode, sa),
                b |-> NewUUIDv1Generator(1, TestNode, sb)]
    /\ back = NoRet

NextPair == NewV1Pair

SpecPair == InitPair /\ [][NextPair]_vars

\* ------------------------------------------------------- the method NewV7
\* NewV7 leaving the counter alone when the millisecond changes
NewV7_NoReset(g, n, r2, r10) ==
    LET g1 == IF n # g.LastMillis THEN [g EXCEPT !.LastMillis = n] ELSE g
        g2 == IF g1.Counter < 4095
              THEN [g1 EXCEPT !.Counter = (g1.Counter + 1) % 65536] ELSE g1
        counterBits1 == IF g1.Counter < 4095 THEN g1.Counter ELSE BitAnd(Uint16(r2), 4095)
    IN  IF g1.Counter >= 4095 /\ r2 = <<>>
        THEN [g |-> g2, str |-> <<>>, err |-> ErrRand]
        ELSE IF r10 = <<>>
        THEN [g |-> g2, str |-> <<>>, err |-> ErrRand]
        ELSE [g |-> g2, str |-> Sprintf5(V7Bytes(n, counterBits1, r10)), err |-> NoErr]

\* g.NewV7() of a caller that finds the mutex free: n is the reading of the clock,
\* r2 the 2 bytes of the rollover draw and r10 the 10 tail bytes, <<>> for a draw
\* that fails; the generator after the call, the string and the error
NewV7(g, n, r2, r10) ==
    LET g1 == IF n # g.LastMillis THEN [g EXCEPT !.LastMillis = n, !.Counter = 0] ELSE g
        g2 == IF g1.Counter < 4095
              THEN [g1 EXCEPT !.Counter = (g1.Counter + 1) % 65536] ELSE g1
        counterBits1 == IF g1.Counter < 4095 THEN g1.Counter ELSE BitAnd(Uint16(r2), 4095)
    IN  IF g1.Counter >= 4095 /\ r2 = <<>>
        THEN [g |-> g2, str |-> <<>>, err |-> ErrRand]
        ELSE IF r10 = <<>>
        THEN [g |-> g2, str |-> <<>>, err |-> ErrRand]
        ELSE [g |-> g2, str |-> Sprintf5(V7Bytes(n, counterBits1, r10)), err |-> NoErr]

\* the generators both entry points start from
GeneratorsV7 ==
    {[NewUUIDGeneratorV7(1) EXCEPT !.LastMillis = m, !.Counter = c] :
        m \in {Zero64} \cup {UnixMilli(k) : k \in Ticks}, c \in {0, 1, 4094, 4095}}

\* a hand-built generator gets the method call
NewV7Call ==
    /\ args.fn = "g.NewV7"
    /\ back = NoRet
    /\ \E r2 \in Rand2 \cup {<<>>}, r10 \in Rand10 \cup {<<>>} :
        back' = [g |-> NewV7(args.g, UnixMilli(clock), r2, r10).g,
                 str |-> NewV7(args.g, UnixMilli(clock), r2, r10).str,
                 err |-> NewV7(args.g, UnixMilli(clock), r2, r10).err,
                 r2 |-> r2, r10 |-> r10]
    /\ UNCHANGED <<args, varsParse, clock, pc, calls, out, varsV1, varsV7,
                   localsV1, localsV7>>

\* the singleton and a hand-built generator in the same state, under one clock
InitBothV7 ==
    /\ clock \in Ticks
    /\ pc = [p \in Procs |-> "idle"]
    /\ calls = 0
    /\ out = <<>>
    /\ GlobalGeneratorV1 = Nil
    /\ GlobalGeneratorV1Once = "new"
    /\ GlobalGeneratorV1Err = NoErr
    /\ builtV1 = 0
    /\ \/ /\ GeneratorV7 = Nil
          /\ GeneratorV7Once = "new"
          /\ builtV7 = 0
          /\ args = [fn |-> "g.NewV7", g |-> NewUUIDGeneratorV7(1)]
       \/ /\ GeneratorV7 \in GeneratorsV7
          /\ GeneratorV7Once = "done"
          /\ builtV7 = 1
          /\ args = [fn |-> "g.NewV7", g |-> GeneratorV7]
    /\ GeneratorV7Err = NoErr
    /\ timestamp = [p \in Procs |-> Zero64]
    /\ clockSeq = [p \in Procs |-> 0]
    /\ now = [p \in Procs |-> Zero64]
    /\ counterBits = [p \in Procs |-> 0]
    /\ rollover = [p \in Procs |-> FALSE]
    /\ input = <<>>
    /\ parsed = NotParsed
    /\ back = NoRet

\* one call of UUIDv7asString and one call of NewV7
NextBothV7 ==
    \/ calls = 0 /\ V7Call(1)
    \/ V7OnceDo(1)
    \/ V7New(1)
    \/ V7Check(1)
    \/ V7Lock(1)
    \/ V7Now(1)
    \/ V7Reset(1)
    \/ V7Seq(1)
    \/ V7Inc(1)
    \/ V7Tail(1)
    \/ NewV7Call

SpecBothV7 == InitBothV7 /\ [][NextBothV7]_vars

\* ---------------------------------------------------------- UUIDfromBytes
\* []byte("urn:uuid"), the literal UUIDfromBytes compares the first 9 bytes with
UrnLiteral == <<117, 114, 110, 58, 117, 117, 105, 100>>
ErrPrefixBytes(pre) == <<"wrong urn:prefix", ToString(pre)>>

UUIDfromBytes(b) ==
    CASE Len(b) = 32 -> Parse32(b)
      [] Len(b) = 36 -> ParseBody(b)
      [] Len(b) = 38 -> ParseBody(Tail(b))
      [] Len(b) = 45 ->
            IF ~EqualFold(SubSeq(b, 1, 9), UrnLiteral)
            THEN Returned(ZeroUUID, ErrPrefixBytes(SubSeq(b, 1, 9)))
            ELSE ParseBody(SubSeq(b, 10, 45))
      [] OTHER -> Returned(ZeroUUID, ErrFormat)

\* UUIDfromBytes called with the bytes of the string at hand
UUIDfromBytesCall ==
    /\ back' = [bytes |-> UUIDfromBytes(input).uuid, err |-> UUIDfromBytes(input).err]
    /\ UNCHANGED <<args, varsParse, clock, pc, calls, out, varsV1, varsV7,
                   localsV1, localsV7>>

\* a caller handing one text to both parsers
NextBytes == UUIDfromStringCall \/ UUIDfromBytesCall

SpecBytes == InitParse /\ [][NextBytes]_vars

\* ------------------------------------------- GetNodeID and the packing steps
\* what net.Interfaces() may list, and what rand.Read may deliver to GetNodeID
MacB == <<2, 0, 94, 16, 0, 1>>
IfaceKinds ==
    {Iface(TRUE, FALSE, <<>>), Iface(TRUE, FALSE, Fill(6, 1, 1)),
     Iface(FALSE, TRUE, Fill(6, 9, 1)), Iface(TRUE, TRUE, Fill(6, 3, 3)),
     Iface(FALSE, FALSE, <<>>), Iface(FALSE, FALSE, Fill(8, 7, 1)),
     Iface(FALSE, FALSE, MacA), Iface(FALSE, FALSE, MacB)}
IfaceLists == UNION {[1..n -> IfaceKinds] : n \in 0..MaxIfaces}
NodeDraws == {<<>>, Fill(6, 2, 17), Fill(6, 255, 0), Fill(6, 0, 0)}
NodeArgs ==
    {[fn |-> "GetNodeID", ifs |-> [err |-> FALSE, list |-> l], rnd |-> r] :
        l \in IfaceLists, r \in NodeDraws} \cup
    {[fn |-> "GetNodeID", ifs |-> [err |-> TRUE, list |-> <<>>], rnd |-> r] :
        r \in NodeDraws}

\* the timestamps, clock sequences and nodes NewV1 may have to pack
V1Args ==
    {[fn |-> "NewV1", ts |-> t, cs |-> c, node |-> n] :
        t \in {Zero64, Max64, getTimestamp(1), <<4096, 0, 0, 0>>, <<4095, 65535, 0, 1>>,
               <<4660, 22136, 39612, 57072>>, <<61440, 1, 256, 255>>},
        c \in {0, 1, 255, 256, 4660, 16128, 16383},
        n \in {MacA, Fill(6, 255, 0), Fill(6, 0, 0)}}

\* the readings, sequence values and tail bytes a v7 call may have to pack
V7Args ==
    {[fn |-> "NewV7", now |-> n, s |-> q, r |-> r] :
        n \in {Zero64, UnixMilli(1), <<0, 65535, 65535, 65535>>, <<0, 4660, 22136, 39612>>,
               <<1, 0, 0, 0>>, Max64},
        q \in {0, 1, 255, 256, 2748, 4094, 4095},
        r \in Rand10 \cup {Fill(10, 0, 0), Fill(10, 64, 21)}}

\* GetNodeID called with the interfaces and the draw at hand
GetNodeIDCall ==
    /\ args.fn = "GetNodeID"
    /\ back' = [bytes |-> GetNodeID(args.ifs, args.rnd).node,
                err |-> GetNodeID(args.ifs, args.rnd).err]
    /\ UNCHANGED <<args, varsParse, clock, pc, calls, out, varsV1, varsV7,
                   localsV1, localsV7>>

\* the packing of NewV1 on the timestamp, clock sequence and node at hand
V1Pack ==
    /\ args.fn = "NewV1"
    /\ back' = [bytes |-> V1Bytes(args.ts, args.cs, args.node), err |-> NoErr]
    /\ UNCHANGED <<args, varsParse, clock, pc, calls, out, varsV1, varsV7,
                   localsV1, localsV7>>

\* the packing of a v7 call on the reading, sequence value and tail bytes at hand
V7Pack ==
    /\ args.fn = "NewV7"
    /\ back' = [bytes |-> V7Bytes(args.now, args.s, args.r), err |-> NoErr]
    /\ UNCHANGED <<args, varsParse, clock, pc, calls, out, varsV1, varsV7,
                   localsV1, localsV7>>

\* a caller holding any of these values
InitPure ==
    /\ clock \in Ticks
    /\ pc = [p \in Procs |-> "idle"]
    /\ calls = 0
    /\ out = <<>>
    /\ GlobalGeneratorV1 = Nil
    /\ GlobalGeneratorV1Once = "new"
    /\ GlobalGeneratorV1Err = NoErr
    /\ builtV1 = 0
    /\ GeneratorV7 = Nil
    /\ GeneratorV7Once = "new"
    /\ GeneratorV7Err = NoErr
    /\ builtV7 = 0
    /\ timestamp = [p \in Procs |-> Zero64]
    /\ clockSeq = [p \in Procs |-> 0]
    /\ now = [p \in Procs |-> Zero64]
    /\ counterBits = [p \in Procs |-> 0]
    /\ rollover = [p \in Procs |-> FALSE]
    /\ input = <<>>
    /\ parsed = NotParsed
    /\ args \in NodeArgs \cup V1Args \cup V7Args
    /\ back = NoRet

NextPure == GetNodeIDCall \/ V1Pack \/ V7Pack

SpecPure == InitPure /\ [][NextPure]_vars

\* ------------------------------------------------------------- the program
\* callers of the three entry points running side by side
Next ==
    \/ ClockStep
    \/ \E p \in Procs : V1Step(p) \/ V7Step(p) \/ UUIDv4asString(p)
    \/ UUIDfromStringCall

Spec == InitV7 /\ [][Next]_vars

\* callers of the two singletons only, MaxGenCalls calls between them
NextGen ==
    \/ ClockStep
    \/ \E p \in Procs :
        \/ V1Step(p) /\ calls' <= MaxGenCalls
        \/ V7Step(p) /\ calls' <= MaxGenCalls

SpecGen == Init /\ [][NextGen]_vars

\* callers of the three generators, MaxGenCalls calls between them
NextMix ==
    \/ ClockStep
    \/ \E p \in Procs :
        \/ V1Step(p) /\ calls' <= MaxGenCalls
        \/ V7Step(p) /\ calls' <= MaxGenCalls
        \/ calls < MaxGenCalls /\ UUIDv4asString(p)

SpecMix == Init /\ [][NextMix]_vars

\* one caller of the three generators: every call returns before the next begins
NextOne ==
    \/ ClockStep
    \/ V1Step(1) /\ calls' <= MaxGenCalls
    \/ V7Step(1) /\ calls' <= MaxGenCalls
    \/ calls < MaxGenCalls /\ UUIDv4asString(1)

SpecOne == Init /\ [][NextOne]_vars

\* ================================================================== claims
OkV1 == {i \in DOMAIN out : out[i].ver = "v1" /\ out[i].err = NoErr}
OkV4 == {i \in DOMAIN out : out[i].ver = "v4" /\ out[i].err = NoErr}
OkV7 == {i \in DOMAIN out : out[i].ver = "v7" /\ out[i].err = NoErr}

\* the fields of an identifier, read back from its 16 bytes
VersionNibble(u) == u[7] \div 16
VariantBits(u) == u[9] \div 64
TimestampField(u) == SubSeq(u, 1, 6)
SequenceField(u) == (u[7] % 16) * 256 + u[8]

RECURSIVE LessBytes(_, _)
LessBytes(a, b) ==
    IF a = <<>> \/ b = <<>> THEN FALSE
    ELSE IF Head(a) # Head(b) THEN Head(a) < Head(b)
    ELSE LessBytes(Tail(a), Tail(b))

\* the text of an identifier shows version digit v and a variant digit 8, 9, a or b
TextShows(str, v) ==
    /\ Len(str) = 36
    /\ str[15] = 48 + v
    /\ str[20] \in {56, 57, 97, 98}

InV1(p) == pc[p] \in {"v1_time", "v1_switch", "v1_wait", "v1_save"}
InV7(p) == pc[p] \in {"v7_now", "v7_reset", "v7_seq", "v7_inc", "v7_tail"}
PastOnceV1(p) == pc[p] = "v1_check" \/ pc[p] = "v1_lock" \/ InV1(p)
PastOnceV7(p) == pc[p] = "v7_check" \/ pc[p] = "v7_lock" \/ InV7(p)

\* C1 (as claimed): of two successful v7 calls, the second made after the first
\* returned, the later identifier's 48-bit timestamp field is not smaller than the
\* earlier one's, whatever the clock showed.
C1_TimestampOrdering ==
    \A i, j \in OkV7 :
        i < j => ~LessBytes(TimestampField(out[j].uuid), TimestampField(out[i].uuid))

\* C2 (as claimed): of two successful v7 calls, the second made after the first
\* returned, whose identifiers carry the same timestamp field and with no rollover
\* call from the first to the second, the later sequence field is strictly greater.
C2_SequenceOrdering ==
    \A i, j \in OkV7 :
        ( /\ i < j
          /\ TimestampField(out[i].uuid) = TimestampField(out[j].uuid)
          /\ \A k \in i..j : ~out[k].roll )
        => SequenceField(out[j].uuid) > SequenceField(out[i].uuid)

\* C3 (as claimed): no two successful NewV1 calls on the singleton return the same
\* identifier.
C3_V1Unique ==
    \A i, j \in OkV1 : i < j => out[i].str # out[j].str

\* the timestamps packed by the successful v1 calls never decrease
V1NoRegression ==
    \A i, j \in OkV1 : i < j => ~Less64(out[j].t, out[i].t)

\* C3 (amended): as long as the timestamps packed by successive successful NewV1
\* calls never decrease, no two of them return the same identifier: calls that pack
\* the same timestamp carry different clock sequences.
C3_V1UniqueWithoutRegression ==
    V1NoRegression =>
        \A i, j \in OkV1 :
            i < j => /\ out[i].str # out[j].str
                     /\ out[i].uuid # out[j].uuid
                     /\ (out[i].t = out[j].t => out[i].s # out[j].s)

C3_Witness ==
    /\ V1NoRegression
    /\ \E i, j \in OkV1 : i < j /\ out[i].t = out[j].t /\ out[i].s # out[j].s

\* C4: for each of the two generators at most one call is between Lock and its
\* return, that call holds the mutex, and the generator state a call has read or
\* written is still the one it finds at its later steps.
C4_MutualExclusion ==
    /\ \A p, q \in Procs :
          p # q => ~(InV1(p) /\ InV1(q)) /\ ~(InV7(p) /\ InV7(q))
    /\ \A p \in Procs :
          InV1(p) => GlobalGeneratorV1 # Nil /\ GlobalGeneratorV1.Mtx = p
    /\ \A p \in Procs :
          InV7(p) => GeneratorV7 # Nil /\ GeneratorV7.Mtx = p
    /\ \A p \in Procs :
          /\ pc[p] \in {"v7_seq", "v7_inc", "v7_tail"} => GeneratorV7.LastMillis = now[p]
          /\ pc[p] = "v7_inc" => GeneratorV7.Counter = counterBits[p]
          /\ pc[p] = "v7_tail" /\ ~rollover[p] => GeneratorV7.Counter = counterBits[p] + 1
          /\ pc[p] = "v1_wait" => /\ GlobalGeneratorV1.ClockSeq = clockSeqMask
                                  /\ clockSeq[p] = 0

C4_Witness ==
    \E p, q \in Procs : InV7(p) /\ pc[q] = "v7_lock" /\ pc[p] = "v7_inc"

SameMillisBurst ==
    /\ out # <<>>
    /\ DOMAIN out = OkV7
    /\ \A i \in DOMAIN out : out[i].t = out[1].t /\ ~out[i].roll
    /\ out[1].s = 0
    /\ \A p \in Procs : ~InV7(p)

C6_ExactlyOnce ==
    /\ builtV1 <= 1 /\ builtV7 <= 1
    /\ \A p, q \in Procs : p # q => ~(pc[p] = "v1_new" /\ pc[q] = "v1_new")
    /\ \A p, q \in Procs : p # q => ~(pc[p] = "v7_new" /\ pc[q] = "v7_new")
    /\ \A p \in Procs :
          PastOnceV1(p) => GlobalGeneratorV1Once = "done" /\ builtV1 = 1
    /\ \A p \in Procs :
          PastOnceV7(p) => GeneratorV7Once = "done" /\ builtV7 = 1
    /\ \A p \in Procs :
          pc[p] = "v1_lock" \/ InV1(p) => GlobalGeneratorV1 # Nil /\ GlobalGeneratorV1.id = 1
    /\ \A p \in Procs :
          pc[p] = "v7_lock" \/ InV7(p) => GeneratorV7 # Nil /\ GeneratorV7.id = 1

C6_Witness ==
    /\ out = <<>>
    /\ \E p, q \in Procs : p # q /\ InV1(p) /\ pc[q] = "v1_lock"

\* C7: once construction of the v1 singleton has failed, the constructor has run
\* exactly once and is not running, there is no generator, no caller is in NewV1,
\* and every call has returned the empty string with the cached error wrapped.
C7_CachedInitFailure ==
    /\ builtV1 <= 1
    /\ GlobalGeneratorV1Err # NoErr =>
          /\ builtV1 = 1
          /\ GlobalGeneratorV1Once = "done"
          /\ GlobalGeneratorV1 = Nil
          /\ \A p \in Procs : pc[p] \in {"idle", "v1_once", "v1_check"}
          /\ \A i \in DOMAIN out :
                /\ out[i].err = Wrap(InitErrV1, GlobalGeneratorV1Err)
                /\ out[i].str = <<>>

C7_Witness ==
    /\ GlobalGeneratorV1Err # NoErr
    /\ Len(out) >= 2

\* C8: every identifier a successful v1 call returns has version nibble 0001 and
\* variant bits 10, in its bytes and in its text.
C8_V1VersionVariant ==
    \A i \in OkV1 :
        /\ Len(out[i].uuid) = 16
        /\ VersionNibble(out[i].uuid) = 1
        /\ VariantBits(out[i].uuid) = 2
        /\ TextShows(out[i].str, 1)

C8_Witness ==
    \E i, j \in OkV1 : i < j /\ out[i].s = clockSeqMask /\ Less64(out[j].t, out[i].t)

\* C9: every identifier a successful v4 call returns has version nibble 0100 and
\* variant bits 10; the low nibble of byte 6, the low 6 bits of byte 8 and the
\* other 14 bytes are the ones drawn.
C9_V4VersionVariant ==
    \A i \in OkV4 :
        /\ Len(out[i].uuid) = 16
        /\ VersionNibble(out[i].uuid) = 4
        /\ VariantBits(out[i].uuid) = 2
        /\ out[i].uuid[7] % 16 = out[i].drawn[7] % 16
        /\ out[i].uuid[9] % 64 = out[i].drawn[9] % 64
        /\ \A k \in (1..16) \ {7, 9} : out[i].uuid[k] = out[i].drawn[k]
        /\ TextShows(out[i].str, 4)

C9_Witness ==
    \E i \in OkV4 : out[i].drawn[7] = 255 /\ out[i].drawn[9] = 0

\* C10: every identifier a successful v7 call returns has version nibble 0111 and
\* variant bits 10, whether its sequence value came from the counter or, at
\* rollover, from the random source.
C10_V7VersionVariant ==
    \A i \in OkV7 :
        /\ Len(out[i].uuid) = 16
        /\ VersionNibble(out[i].uuid) = 7
        /\ VariantBits(out[i].uuid) = 2
        /\ TextShows(out[i].str, 7)

C10_Witness ==
    \E i, j \in OkV7 : ~out[i].roll /\ out[i].s = 4094 /\ out[j].roll /\ out[j].s = 4095

\* ------------------------------------------------------------ C11 .. C20
\* what the UUID-returning entry point of r's version hands to its caller
UUIDvN(r) ==
    CASE r.ver = "v1" -> UUIDv1(r)
      [] r.ver = "v4" -> UUIDv4(r)
      [] OTHER -> UUIDv7(r)

\* the parser has returned
Called == parsed # NotParsed

\* the lengths the parser has a case for
Shapes == {32, 36, 38, 45}

IsHex(c) == c \in 48..57 \/ c \in 65..70 \/ c \in 97..102
HexVal(c) == IF c \in 48..57 THEN c - 48 ELSE IF c \in 65..70 THEN c - 55 ELSE c - 87

\* the 36-byte body of a hyphenated text, and where its hyphens belong
Body(str) ==
    IF Len(str) = 38 THEN SubSeq(str, 2, 37)
    ELSE IF Len(str) = 45 THEN SubSeq(str, 10, 45)
    ELSE str
HyphenAt == {9, 14, 19, 24}
WellFormedBody(b) ==
    /\ Len(b) = 36
    /\ \A i \in 1..36 : IF i \in HyphenAt THEN b[i] = 45 ELSE IsHex(b[i])

\* the 32 places of a text where a hex digit belongs, in textual order
HexPlaces(str) ==
    IF Len(str) = 32 THEN [i \in 1..32 |-> str[i]]
    ELSE SelectSeq(Body(str), LAMBDA c : c # 45)
HasBadDigit(str) ==
    IF Len(str) = 32 THEN \E i \in 1..32 : ~IsHex(str[i])
    ELSE \E i \in (1..36) \ HyphenAt : ~IsHex(Body(str)[i])

\* C11: identifiers returned by generators of different versions are never equal,
\* neither as bytes nor as text: they differ already in the version digit.
C11_CrossVersionDisjoint ==
    \A i, j \in DOMAIN out :
        (out[i].err = NoErr /\ out[j].err = NoErr /\ out[i].ver # out[j].ver) =>
            /\ out[i].str # out[j].str
            /\ out[i].uuid # out[j].uuid
            /\ out[i].str[15] # out[j].str[15]

C11_Witness ==
    \E i, j \in DOMAIN out :
        /\ out[i].err = NoErr /\ out[j].err = NoErr
        /\ out[i].ver = "v1" /\ out[j].ver = "v4"

\* C12: for every identifier x, the parser applied to its canonical, hyphenless,
\* braced and URN-prefixed text succeeds and returns x.
C12_RoundTrip ==
    Called => \A x \in Ids : input \in Forms(x) => parsed = Returned(x, NoErr)

C12_Witness ==
    /\ Called
    /\ \E x \in Ids : x[7] \div 16 = 7 /\ input = Urn(x) /\ parsed = Returned(x, NoErr)

\* C13: for an input whose length is not 32, 36, 38 or 45 the parser returns the
\* length error and the zero value, whatever the bytes of the input are.
C13_LengthGate ==
    (Called /\ Len(input) \notin Shapes) =>
        parsed = Returned(ZeroUUID, ErrLength(Len(input)))

C13_Witness ==
    /\ Len(input) = 35
    /\ parsed = Returned(ZeroUUID, ErrLength(35))

\* C14: a 36-, 38- or 45-byte input is parsed successfully only if its body has a
\* hyphen at each of the places 8, 13, 18, 23 and a hex digit at every other place.
C14_HyphenPlaces ==
    (Called /\ Len(input) \in {36, 38, 45} /\ parsed.err = NoErr) =>
        WellFormedBody(Body(input))

C14_Witness ==
    /\ Called
    /\ Len(input) = 36
    /\ input[9] = 45 /\ input[14] # 45 /\ IsHex(input[14])
    /\ parsed.err = ErrFormat

\* C15 (as claimed): a 38-byte input is parsed successfully only if it begins with
\* '{' and ends with '}' around a well-formed body.
C15_BracedForm ==
    (Called /\ Len(input) = 38 /\ parsed.err = NoErr) =>
        /\ input[1] = 123
        /\ input[38] = 125
        /\ WellFormedBody(Body(input))

\* C16: a 45-byte input is parsed successfully if and only if its first 9 bytes are
\* "urn:uuid:" in any mix of cases and the other 36 are a well-formed body.
C16_UrnForm ==
    (Called /\ Len(input) = 45) =>
        (parsed.err = NoErr <=>
            /\ \A i \in 1..9 : input[i] \in {UrnPrefix[i], Flip(UrnPrefix[i])}
            /\ WellFormedBody(Body(input)))

C16_Witness ==
    /\ Called
    /\ Len(input) = 45
    /\ SubSeq(input, 1, 9) = <<117, 114, 110, 58, 117, 117, 100, 105, 58>>
    /\ WellFormedBody(Body(input))
    /\ parsed.err = ErrPrefix(SubSeq(input, 1, 9))

\* C17: an input of length 32, 36, 38 or 45 with a byte other than 0-9, a-f, A-F at
\* one of its 32 hex-digit places is rejected.
C17_HexRejection ==
    (Called /\ Len(input) \in Shapes /\ HasBadDigit(input)) => parsed.err # NoErr

C17_Witness ==
    /\ Called
    /\ Len(input) = 32
    /\ \A i \in 1..32 : i # 2 => IsHex(input[i])
    /\ ~IsHex(input[2])
    /\ parsed.err = ErrFormat

\* C18: on success byte i of the result is 16*hi + lo of the i-th pair of hex digits
\* in textual order, digits of either case having the same value; the text
\* 00000000-0000-1000-8000-000000000000 gives [0,0,0,0,0,0,0x10,0,0x80,0,...,0].
C18_Decoding ==
    (Called /\ parsed.err = NoErr) =>
        /\ \A i \in 1..16 :
             parsed.uuid[i] = 16 * HexVal(HexPlaces(input)[2 * i - 1])
                              + HexVal(HexPlaces(input)[2 * i])
        /\ \A x \in Ids : input = Upper(Canonical(x)) => parsed.uuid = x
        /\ input = [i \in 1..36 |-> IF i \in HyphenAt THEN 45
                                    ELSE IF i = 15 THEN 49
                                    ELSE IF i = 20 THEN 56 ELSE 48]
             => parsed.uuid = ExampleId

C18_Witness ==
    /\ input = Upper(Canonical(Fill(16, 160, 1)))
    /\ input # Canonical(Fill(16, 160, 1))
    /\ parsed = Returned(Fill(16, 160, 1), NoErr)

\* C19 (as claimed): when the generation fails, UUIDv1, UUIDv4 and UUIDv7 return
\* the generation error to their caller.
C19_ErrorPropagation ==
    \A i \in DOMAIN out : out[i].err # NoErr => UUIDvN(out[i]).err = out[i].err

\* C20: an entry point returning an error returns no identifier with it (the string
\* does not parse, the UUID is the zero value), and an entry point returning no
\* error returns a well-formed identifier.
C20_NoIdentifierOnError ==
    \A i \in DOMAIN out :
        LET text == UUIDfromString(out[i].str)
            ret == UUIDvN(out[i])
        IN  IF out[i].err # NoErr
            THEN /\ text.err # NoErr
                 /\ ret.err # NoErr
                 /\ ret.uuid = ZeroUUID
            ELSE /\ WellFormedBody(out[i].str)
                 /\ text = Returned(out[i].uuid, NoErr)
                 /\ ret = Returned(out[i].uuid, NoErr)
                 /\ VariantBits(out[i].uuid) = 2
                 /\ VersionNibble(out[i].uuid) \in {1, 4, 7}

C20_Witness ==
    \E i, j \in DOMAIN out :
        /\ out[i].err # NoErr
        /\ out[i].str # <<>>
        /\ UUIDvN(out[i]) = Returned(ZeroUUID, ErrLength(Len(out[i].str)))
        /\ out[j].err = NoErr
        /\ UUIDvN(out[j]) = Returned(out[j].uuid, NoErr)

\* ------------------------------------------------------------ C21 .. C30
\* an interface GetNodeID may take its address from
Qualifies(i) == ~i.Loopback /\ ~i.PointToPoint /\ Len(i.HardwareAddr) = 6

\* C21: GetNodeID returns the address of the first interface that is neither
\* loopback nor point-to-point and has a 6-byte address; when there is none, or the
\* enumeration fails, 6 random bytes with the lowest bit of byte 0 set; an error
\* only when that draw fails.
C21_NodeResolution ==
    (args.fn = "GetNodeID" /\ back # NoRet) =>
        LET l == args.ifs.list
            q == {k \in 1..Len(l) : Qualifies(l[k])}
        IN  IF ~args.ifs.err /\ q # {}
            THEN /\ back.err = NoErr
                 /\ back.bytes = l[CHOOSE k \in q : \A j \in q : k <= j].HardwareAddr
            ELSE IF args.rnd = <<>>
            THEN back.err # NoErr
            ELSE /\ back.err = NoErr
                 /\ Len(back.bytes) = 6
                 /\ back.bytes[1] % 2 = 1
                 /\ back.bytes[1] \div 2 = args.rnd[1] \div 2
                 /\ \A k \in 2..6 : back.bytes[k] = args.rnd[k]

C21_Witness ==
    /\ args.fn = "GetNodeID"
    /\ Len(args.ifs.list) = 2
    /\ args.ifs.list[1].PointToPoint /\ Len(args.ifs.list[1].HardwareAddr) = 6
    /\ Qualifies(args.ifs.list[2])
    /\ back = [bytes |-> args.ifs.list[2].HardwareAddr, err |-> NoErr]

\* C26: the v1 identifier has bytes 0-3 = t mod 2^32, bytes 4-5 = (t >> 32) mod
\* 2^16, bytes 6-7 = 0x1000 | ((t >> 48) mod 2^12), byte 8 = 0x80 | (c >> 8),
\* byte 9 = c mod 256 and bytes 10-15 = n; bits of t above bit 59 are dropped.
C26_V1Packing ==
    (args.fn = "NewV1" /\ back # NoRet) =>
        LET b == back.bytes IN
        /\ Len(b) = 16
        /\ \A k \in 1..16 : b[k] \in 0..255
        /\ 256 * b[1] + b[2] = args.ts[3]
        /\ 256 * b[3] + b[4] = args.ts[4]
        /\ 256 * b[5] + b[6] = args.ts[2]
        /\ 256 * b[7] + b[8] = 4096 + (args.ts[1] % 4096)
        /\ b[9] = 128 + (args.cs \div 256)
        /\ b[10] = args.cs % 256
        /\ SubSeq(b, 11, 16) = args.node

C26_Witness ==
    /\ args.fn = "NewV1"
    /\ args.ts[1] >= 4096
    /\ args.cs = 16383
    /\ back # NoRet
    /\ back.bytes[7] \div 16 = 1
    /\ back.bytes[9] = 191

\* C30: the v7 identifier has the low 48 bits of now in bytes 0-5, most significant
\* byte first, byte 6 = 0x70 | (s >> 8), byte 7 = s mod 256, byte 8 = 0x80 | (r0 mod
\* 64) and bytes 9-15 = r1..r7 of the 10 tail bytes.
C30_V7Packing ==
    (args.fn = "NewV7" /\ back # NoRet) =>
        LET b == back.bytes IN
        /\ Len(b) = 16
        /\ \A k \in 1..16 : b[k] \in 0..255
        /\ 256 * b[1] + b[2] = args.now[2]
        /\ 256 * b[3] + b[4] = args.now[3]
        /\ 256 * b[5] + b[6] = args.now[4]
        /\ b[7] = 112 + (args.s \div 256)
        /\ b[8] = args.s % 256
        /\ b[9] = 128 + (args.r[1] % 64)
        /\ \A k \in 2..8 : b[8 + k] = args.r[k]

C30_Witness ==
    /\ args.fn = "NewV7"
    /\ args.now = <<0, 4660, 22136, 39612>>
    /\ args.s = 2748
    /\ back # NoRet
    /\ SubSeq(back.bytes, 1, 8) = <<18, 52, 86, 120, 154, 188, 122, 188>>

\* the random values GetRandom14Bit can deliver
Draws14 == {GetRandom14Bit(r) : r \in Rand2}

\* p leaves the switch of NewV1 in this step
V1Decides(p) == pc[p] = "v1_switch" /\ pc'[p] # "v1_switch"

\* p returns from NewV1 with an identifier carrying the timestamp and the clock
\* sequence it holds
V1Emits(p) ==
    (pc[p] = "v1_save" /\ pc'[p] # "v1_save") =>
        /\ Len(out') = Len(out) + 1
        /\ SubSeq(out', 1, Len(out)) = out
        /\ out'[Len(out')].ver = "v1"
        /\ out'[Len(out')].err = NoErr
        /\ out'[Len(out')].t = timestamp[p]
        /\ out'[Len(out')].s = clockSeq[p]
        /\ (out'[Len(out')].uuid[9] % 64) * 256 + out'[Len(out')].uuid[10] = clockSeq[p]

\* p returns from NewV1 with the error of the random source
V1Fails(p) ==
    /\ pc'[p] = "idle"
    /\ Len(out') = Len(out) + 1
    /\ out'[Len(out')] = Failed("v1", ErrRand, <<>>)
    /\ GlobalGeneratorV1'.LastTimestamp = GlobalGeneratorV1.LastTimestamp
    /\ GlobalGeneratorV1'.ClockSeq = GlobalGeneratorV1.ClockSeq

\* C22: when LastTimestamp # 0 and the reading is smaller than LastTimestamp (also
\* for LastTimestamp = 2^64-1), NewV1 takes (ClockSeq+1) mod 2^14 without a draw
\* and without a wait, even when the value is 0, and returns an identifier with it.
C22_Regression ==
    [][\A p \in Procs :
        /\ (/\ V1Decides(p)
            /\ GlobalGeneratorV1.LastTimestamp # Zero64
            /\ Less64(timestamp[p], GlobalGeneratorV1.LastTimestamp))
           => /\ pc'[p] = "v1_save"
              /\ clockSeq'[p] = (GlobalGeneratorV1.ClockSeq + 1) % 16384
              /\ timestamp'[p] = timestamp[p]
              /\ out' = out
        /\ V1Emits(p)]_vars

C22_Witness ==
    /\ GlobalGeneratorV1 # Nil
    /\ GlobalGeneratorV1.LastTimestamp = Max64
    /\ GlobalGeneratorV1.ClockSeq = 16383
    /\ pc[1] = "v1_save"
    /\ clockSeq[1] = 0

\* C23: when the reading equals LastTimestamp, NewV1 takes (ClockSeq+1) mod 2^14
\* with that timestamp; when that is 0 it re-samples the clock until the reading
\* differs from LastTimestamp and then takes a fresh draw with the new reading.
\* Consecutive identifiers of one tick carry pairwise distinct clock sequences.
C23_SameTick ==
    [][/\ \A p \in Procs :
            /\ (/\ V1Decides(p)
                /\ GlobalGeneratorV1.LastTimestamp # Zero64
                /\ timestamp[p] = GlobalGeneratorV1.LastTimestamp)
               => /\ out' = out
                  /\ timestamp'[p] = timestamp[p]
                  /\ clockSeq'[p] = (GlobalGeneratorV1.ClockSeq + 1) % 16384
                  /\ pc'[p] = IF clockSeq'[p] = 0 THEN "v1_wait" ELSE "v1_save"
            /\ (pc[p] = "v1_wait" /\ timestamp[p] = GlobalGeneratorV1.LastTimestamp)
               => pc'[p] = "v1_wait" /\ out' = out
            /\ (pc[p] = "v1_wait" /\ pc'[p] # "v1_wait")
               => \/ V1Fails(p)
                  \/ /\ pc'[p] = "v1_save"
                     /\ timestamp'[p] = timestamp[p]
                     /\ timestamp'[p] # GlobalGeneratorV1.LastTimestamp
                     /\ clockSeq'[p] \in Draws14
                     /\ out' = out
            /\ V1Emits(p)
       /\ \A i \in DOMAIN out', j \in DOMAIN out' :
            (/\ i < j
             /\ \A k \in i..j : out'[k].ver = "v1" /\ out'[k].err = NoErr
                                /\ out'[k].t = out'[i].t)
            => out'[i].s # out'[j].s]_vars

C23_Witness ==
    /\ Len(out) = 2
    /\ out[1].ver = "v1" /\ out[1].err = NoErr /\ out[1].s = 16382
    /\ out[2].ver = "v1" /\ out[2].err = NoErr /\ out[2].s = 16383
    /\ out[2].t = out[1].t
    /\ \E p \in Procs : /\ pc[p] = "v1_wait"
                        /\ timestamp[p] # out[2].t
                        /\ GlobalGeneratorV1.LastTimestamp = out[2].t

\* C24: on the first call (LastTimestamp = 0, tested first) and on every call whose
\* reading is greater than a non-zero LastTimestamp, NewV1 takes a clock sequence
\* drawn from the random source, whatever ClockSeq holds, or fails with the error
\* of the draw.
C24_FreshDraw ==
    [][\A p \in Procs :
        /\ (/\ V1Decides(p)
            /\ \/ GlobalGeneratorV1.LastTimestamp = Zero64
               \/ Less64(GlobalGeneratorV1.LastTimestamp, timestamp[p]))
           => \/ V1Fails(p)
              \/ /\ pc'[p] = "v1_save"
                 /\ timestamp'[p] = timestamp[p]
                 /\ clockSeq'[p] \in Draws14
                 /\ out' = out
        /\ V1Emits(p)]_vars

C24_Witness ==
    /\ Len(out) = 2
    /\ out[1].ver = "v1" /\ out[1].err = NoErr /\ out[1].s = 16383
    /\ out[2].ver = "v1" /\ out[2].err = NoErr /\ out[2].s = 16382
    /\ Less64(out[1].t, out[2].t)

\* C25: after every successful NewV1 the stored (LastTimestamp, ClockSeq) is the
\* (timestamp, clock sequence) packed into the identifier that call returned, also
\* when the timestamp is smaller than the one stored before; a failed call leaves
\* the pair alone.
C25_StatePersistence ==
    (OkV1 # {}) =>
        LET k == CHOOSE i \in OkV1 : \A j \in OkV1 : j <= i IN
        /\ GlobalGeneratorV1.LastTimestamp = out[k].t
        /\ GlobalGeneratorV1.ClockSeq = out[k].s
        /\ SubSeq(out[k].uuid, 1, 4) = PutUint16(out[k].t[3]) \o PutUint16(out[k].t[4])
        /\ SubSeq(out[k].uuid, 5, 6) = PutUint16(out[k].t[2])
        /\ (out[k].uuid[7] % 16) * 256 + out[k].uuid[8] = out[k].t[1] % 4096
        /\ (out[k].uuid[9] % 64) * 256 + out[k].uuid[10] = out[k].s

C25_Witness ==
    /\ Len(out) = 2
    /\ out[1].ver = "v1" /\ out[1].err = NoErr
    /\ out[2].ver = "v1" /\ out[2].err = NoErr
    /\ Less64(out[2].t, out[1].t)
    /\ GlobalGeneratorV1.LastTimestamp = out[2].t
    /\ \A p \in Procs : pc[p] = "idle"

\* the random values a rollover can deliver
Draws12 == {BitAnd(Uint16(r), 4095) : r \in Rand2}

\* p moves on from the place at in this step
V7Leaves(p, at) == pc[p] = at /\ pc'[p] # at

\* p returns from the v7 call with the error of the random source
V7Fails(p) ==
    /\ pc'[p] = "idle"
    /\ Len(out') = Len(out) + 1
    /\ SubSeq(out', 1, Len(out)) = out
    /\ out'[Len(out')].ver = "v7"
    /\ out'[Len(out')].err = ErrRand
    /\ out'[Len(out')].str = <<>>
    /\ GeneratorV7'.LastMillis = GeneratorV7.LastMillis
    /\ GeneratorV7'.Counter = GeneratorV7.Counter
    /\ GeneratorV7'.Mtx = NoProc
    /\ GeneratorV7Err' = NoErr
    /\ GeneratorV7Once' = "done"

\* p returns from the v7 call with an identifier carrying the reading and the
\* sequence value it holds
V7Emits(p) ==
    /\ pc'[p] = "idle"
    /\ Len(out') = Len(out) + 1
    /\ SubSeq(out', 1, Len(out)) = out
    /\ out'[Len(out')].ver = "v7"
    /\ out'[Len(out')].err = NoErr
    /\ out'[Len(out')].t = now[p]
    /\ out'[Len(out')].s = counterBits[p]
    /\ SequenceField(out'[Len(out')].uuid) = counterBits[p]
    /\ GeneratorV7'.LastMillis = GeneratorV7.LastMillis
    /\ GeneratorV7'.Counter = GeneratorV7.Counter

\* two results one after the other, both identifiers of v7
Successive(i) ==
    /\ i \in DOMAIN out /\ i + 1 \in DOMAIN out
    /\ out[i].ver = "v7" /\ out[i].err = NoErr
    /\ out[i + 1].ver = "v7" /\ out[i + 1].err = NoErr

\* C27: whenever the reading differs from LastMillis, later or earlier, a v7 call
\* sets LastMillis to the reading and the counter to 0, emits sequence value 0 and
\* leaves Counter = 1, whatever the counter held.
C27_CounterReset ==
    [][/\ \A p \in Procs :
            /\ (V7Leaves(p, "v7_reset") /\ now[p] # GeneratorV7.LastMillis)
               => /\ GeneratorV7'.LastMillis = now[p]
                  /\ GeneratorV7'.Counter = 0
                  /\ pc'[p] = "v7_seq"
                  /\ now'[p] = now[p]
            /\ (V7Leaves(p, "v7_seq") /\ GeneratorV7.Counter = 0)
               => /\ counterBits'[p] = 0
                  /\ ~rollover'[p]
                  /\ pc'[p] = "v7_inc"
                  /\ now'[p] = now[p]
                  /\ GeneratorV7' = GeneratorV7
            /\ (V7Leaves(p, "v7_inc") /\ GeneratorV7.Counter = 0)
               => /\ GeneratorV7'.Counter = 1
                  /\ GeneratorV7'.LastMillis = GeneratorV7.LastMillis
                  /\ pc'[p] = "v7_tail"
                  /\ now'[p] = now[p]
                  /\ counterBits'[p] = counterBits[p]
            /\ V7Leaves(p, "v7_tail") => V7Fails(p) \/ V7Emits(p)
       /\ (\A i \in DOMAIN out :
            (Successive(i) /\ out[i + 1].t # out[i].t)
            => out[i + 1].s = 0 /\ ~out[i + 1].roll)'
       /\ (\A i \in DOMAIN out :
            (/\ Successive(i) /\ i + 1 = Len(out) /\ pc[1] = "idle"
             /\ out[i + 1].t # out[i].t)
            => /\ GeneratorV7.Counter = 1
               /\ GeneratorV7.LastMillis = out[i + 1].t)']_vars

C27_Witness ==
    /\ Len(out) = 2
    /\ Successive(1)
    /\ Less64(out[2].t, out[1].t)
    /\ out[2].s = 0
    /\ pc[1] = "idle"
    /\ GeneratorV7.Counter = 1
    /\ GeneratorV7.LastMillis = out[2].t

C29_NoRollback ==
    [][/\ \A p \in Procs :
            (/\ V7Leaves(p, "v7_tail")
             /\ ~rollover[p]
             /\ out'[Len(out')].err # NoErr)
            => /\ V7Fails(p)
               /\ GeneratorV7'.LastMillis = now[p]
               /\ GeneratorV7'.Counter = counterBits[p] + 1
       /\ (\A i \in DOMAIN out :
            (/\ i + 2 \in DOMAIN out
             /\ out[i].ver = "v7" /\ out[i].err = NoErr /\ ~out[i].roll
             /\ out[i + 1].ver = "v7" /\ out[i + 1].err # NoErr
             /\ out[i + 2].ver = "v7" /\ out[i + 2].err = NoErr /\ ~out[i + 2].roll
             /\ out[i + 2].t = out[i].t)
            => out[i + 2].s # out[i].s + 1)']_vars

C29_Witness ==
    /\ Len(out) = 3
    /\ out[1].ver = "v7" /\ out[1].err = NoErr /\ out[1].s = 0
    /\ out[2].ver = "v7" /\ out[2].err = ErrRand /\ out[2].str = <<>>
    /\ out[3].ver = "v7" /\ out[3].err = NoErr /\ out[3].s = 2
    /\ out[3].t = out[1].t
    /\ GeneratorV7.Counter = 3

\* ------------------------------------------------------------ C31 .. C39
\* C37: for every byte sequence b, UUIDfromBytes(b) and UUIDfromString(string(b))
\* agree: both succeed with the same 16 bytes or both return an error, in all four
\* accepted shapes.
C37_ParserEquivalence ==
    (parsed # NotParsed /\ back # NoRet) =>
        /\ (parsed.err = NoErr) <=> (back.err = NoErr)
        /\ parsed.err = NoErr => back.bytes = parsed.uuid

\* p sits in the wait loop with a sample equal to LastTimestamp
Stuck(p) == pc[p] = "v1_wait" /\ timestamp[p] = GlobalGeneratorV1.LastTimestamp

\* the clock reads LastTimestamp
Frozen == GlobalGeneratorV1 # Nil /\ getTimestamp(clock) = GlobalGeneratorV1.LastTimestamp

\* C31: with a clock that eventually yields a reading other than LastTimestamp every
\* NewV1 call returns, the waiting one as soon as a sample differs; while the clock
\* stays at LastTimestamp the waiting call does not return.
C31_WaitTerminates ==
    /\ (pc[1] # "idle") ~> (pc[1] = "idle")
    /\ [][\A p \in Procs : (Stuck(p) /\ Frozen /\ Frozen') => Stuck(p)']_vars

C31_Witness ==
    /\ pc[1] = "v1_wait"
    /\ timestamp[1] # GlobalGeneratorV1.LastTimestamp
    /\ getTimestamp(clock) # GlobalGeneratorV1.LastTimestamp

\* C32: while a v1 call is in the wrap-around wait it holds the generator lock: no
\* other call on the generator reads the clock, changes (LastTimestamp, ClockSeq)
\* or returns an identifier before the waiting call has finished.
C32_LockHeldAcrossWait ==
    [][\A p \in Procs :
        (pc[p] = "v1_wait" \/ pc[p] = "v1_save")
        => /\ GlobalGeneratorV1.Mtx = p
           /\ \A q \in Procs \ {p} : ~InV1(q) /\ ~InV1(q)'
           /\ pc'[p] # "idle"
              => /\ out' = out
                 /\ GlobalGeneratorV1'.LastTimestamp = GlobalGeneratorV1.LastTimestamp
                 /\ GlobalGeneratorV1'.ClockSeq = GlobalGeneratorV1.ClockSeq
                 /\ GlobalGeneratorV1'.Mtx = p]_vars

C32_Witness ==
    /\ pc[1] = "v1_wait"
    /\ pc[2] = "v1_lock"
    /\ GlobalGeneratorV1.Mtx = 1
    /\ timestamp[1] # GlobalGeneratorV1.LastTimestamp

\* every pair of bytes the random source can deliver gives a value of 14 bits
Draw14Range ==
    \A hi \in 0..255, lo \in 0..255 : GetRandom14Bit(<<hi, lo>>) \in 0..16383

\* C33: GetRandom14Bit returns a value in 0..16383, and in every state reachable
\* from a constructed v1 generator the stored ClockSeq and the clock sequence
\* packed into each identifier are in 0..16383.
C33_ClockSeqRange ==
    /\ Draw14Range
    /\ GlobalGeneratorV1 # Nil => GlobalGeneratorV1.ClockSeq \in 0..16383
    /\ \A p \in Procs : clockSeq[p] \in 0..16383
    /\ \A i \in OkV1 :
        /\ out[i].s \in 0..16383
        /\ (out[i].uuid[9] - 128) * 256 + out[i].uuid[10] = out[i].s

C33_Witness ==
    /\ Len(out) = 2
    /\ out[1].ver = "v1" /\ out[1].err = NoErr /\ out[1].s = 16383
    /\ out[2].ver = "v1" /\ out[2].err = NoErr /\ out[2].s = 0
    /\ GlobalGeneratorV1.ClockSeq = 0

\* C34: no NewV1 call, successful or failing, changes Node, and bytes 10-15 of
\* every identifier of a generator are the Node resolved at its construction.
C34_NodeFixed ==
    [][/\ GlobalGeneratorV1 # Nil
          => /\ GlobalGeneratorV1' # Nil
             /\ GlobalGeneratorV1'.Node = GlobalGeneratorV1.Node
       /\ (GlobalGeneratorV1 = Nil /\ GlobalGeneratorV1' # Nil)
          => \E ifs \in Interfaces, rnd \in Rand6 :
                GlobalGeneratorV1'.Node \in {FirstMac(ifs.list), <<BitOr(rnd[1], 1)>> \o Tail(rnd)}
       /\ (\A i \in OkV1 : SubSeq(out[i].uuid, 11, 16) = GlobalGeneratorV1.Node)']_vars

C34_Witness ==
    /\ Len(out) = 2
    /\ out[1] = Failed("v1", ErrRand, <<>>)
    /\ out[2].ver = "v1" /\ out[2].err = NoErr
    /\ SubSeq(out[2].uuid, 11, 16) = TestNode
    /\ GlobalGeneratorV1.Node = TestNode

\* C35: a NewV1 call that returns an error leaves LastTimestamp and ClockSeq as they
\* were before the call, also when the error comes after the call has waited for
\* the clock to change.
C35_FailureKeepsState ==
    [][/\ (/\ GlobalGeneratorV1 # Nil
           /\ Len(out') = Len(out) + 1
           /\ out'[Len(out')].err # NoErr)
          => /\ GlobalGeneratorV1'.LastTimestamp = GlobalGeneratorV1.LastTimestamp
             /\ GlobalGeneratorV1'.ClockSeq = GlobalGeneratorV1.ClockSeq
             /\ \E p \in Procs : pc[p] \in {"v1_switch", "v1_wait"} /\ pc'[p] = "idle"
       /\ \A p \in Procs :
            (pc[p] \in {"v1_time", "v1_switch", "v1_wait"})
            => /\ GlobalGeneratorV1'.LastTimestamp = GlobalGeneratorV1.LastTimestamp
               /\ GlobalGeneratorV1'.ClockSeq = GlobalGeneratorV1.ClockSeq]_vars

C35_Witness ==
    /\ Len(out) >= 1
    /\ out[Len(out)] = Failed("v1", ErrRand, <<>>)
    /\ GlobalGeneratorV1.ClockSeq = 16383
    /\ \E p \in Procs : pc[p] = "v1_wait" /\ timestamp[p] # GlobalGeneratorV1.LastTimestamp

\* C36: every NewV1, NewV7 and UUIDv7asString call that returns, with or without an
\* error, has released the generator lock: the lock is free whenever no call is in
\* progress, and it is held by a caller that is inside the locked part.
C36_LockReleased ==
    /\ GlobalGeneratorV1 # Nil
       => /\ (\A p \in Procs : ~InV1(p)) => GlobalGeneratorV1.Mtx = NoProc
          /\ GlobalGeneratorV1.Mtx # NoProc => InV1(GlobalGeneratorV1.Mtx)
    /\ GeneratorV7 # Nil
       => /\ (\A p \in Procs : ~InV7(p)) => GeneratorV7.Mtx = NoProc
          /\ GeneratorV7.Mtx # NoProc => InV7(GeneratorV7.Mtx)

C36_Witness ==
    /\ Len(out) = 1
    /\ out[1] = Failed("v7", ErrRand, <<>>)
    /\ \E p \in Procs : InV7(p) /\ GeneratorV7.Mtx = p

\* the method call drew what the singleton call drew
SameDraws ==
    /\ back.r10 = out[1].drawn
    /\ out[1].roll => back.r2 # <<>> /\ BitAnd(Uint16(back.r2), 4095) = out[1].s

\* C38: UUIDv7asString applies the same transition and packing as NewV7: from equal
\* (LastMillis, Counter), the same reading and the same draws, both end in the same
\* state and return the same string, or both return an error.
C38_EntryPointEquivalence ==
    (args.fn = "g.NewV7" /\ back # NoRet /\ Len(out) = 1 /\ pc[1] = "idle") =>
        /\ (out[1].err = NoErr /\ SameDraws)
           => /\ back.err = NoErr
              /\ back.str = out[1].str
        /\ (out[1].err # NoErr /\ back.err # NoErr)
           => back.err = out[1].err /\ back.str = out[1].str
        /\ back.g.LastMillis = GeneratorV7.LastMillis
        /\ back.g.Counter = GeneratorV7.Counter
        /\ back.g.Mtx = GeneratorV7.Mtx

C38_Witness ==
    /\ args.fn = "g.NewV7"
    /\ back # NoRet
    /\ Len(out) = 1 /\ pc[1] = "idle"
    /\ out[1].err = NoErr /\ out[1].roll
    /\ SameDraws
    /\ back.str = out[1].str
    /\ args.g.Counter = 4095

\* C39: the clock sequence drawn by NewUUIDv1Generator never reaches an output: two
\* fresh generators that differ only in it return the same strings and errors under
\* the same readings and draws, and hold the same state once a first call has
\* drawn its clock sequence; until then they differ in the unread ClockSeq only.
C39_SeedNotObservable ==
    (args.fn = "NewV1 twice" /\ back # NoRet) =>
        /\ back.outa = back.outb
        /\ [back.a EXCEPT !.ClockSeq = 0] = [back.b EXCEPT !.ClockSeq = 0]
        /\ (\E i \in DOMAIN back.outa : back.outa[i].err = NoErr) => back.a = back.b
        /\ back.a.LastTimestamp = Zero64
           => back.a = args.a /\ back.b = args.b

C39_Witness ==
    /\ args.fn = "NewV1 twice"
    /\ args.a.ClockSeq # args.b.ClockSeq
    /\ back # NoRet
    /\ Len(back.outa) = 3
    /\ back.outa[1].err # NoErr
    /\ back.outa[2].err = NoErr /\ back.outa[3].err = NoErr
    /\ back.outa = back.outb
    /\ back.a = back.b
    /\ back.a.ClockSeq = 1

====
